---------------------------- MODULE Spec2Model ----------------------------
(***************************************************************************)
(* A model of gae_mini_profiler: the profile-mode derivation (Mode), the   *)
(* chunked result cache (RequestStats.store / RequestStats.get over        *)
(* memcache), the sampling profiler (Profile / InspectingThread), its call *)
(* tree and frame table, the line-by-line profiler's results and the       *)
(* request orchestration (RequestProfiler.profile_start_response), the     *)
(* retrieval handler (RequestStatsHandler.get) and the middleware's patch  *)
(* of memcache.add and memcache.delete.                                    *)
(*                                                                         *)
(* Eight specifications share the variables:                               *)
(*   SpecMode      Mode.get_mode applied to every header / cookie pair     *)
(*   SpecCache     stores, evictions and chunk-by-chunk gets on memcache   *)
(*   Spec          one profiled request with its inspecting threads        *)
(*   SpecSampling  Profile._call_tree and Profile.results on every profile *)
(*                 of a few samples                                        *)
(*   SpecLines     linebyline Profile.results on every line profile        *)
(*   SpecStop      a caller of Profile.start and Profile.stop, under fair  *)
(*                 scheduling of the inspecting threads                    *)
(*   SpecHandler   concurrent RequestStatsHandler.get calls on a stored    *)
(*                 profile                                                 *)
(*   SpecMiddleware  concurrent profiled requests patching and restoring   *)
(*                 memcache.add and memcache.delete                        *)
(***************************************************************************)
EXTENDS Integers, Sequences, FiniteSets, TLC

(***************************************************************************)
(* Bounds of the model.                                                    *)
(***************************************************************************)
\* largest compressed length of a pickled RequestStats, in bytes
MaxCLen == 4
\* number of RequestStats.store calls in one behaviour of SpecCache
MaxStores == 2
\* largest number of values an application's response produces
MaxChunks == 2
\* the clock stops ticking at MaxTime unless a sleeping thread waits for it
MaxTime == 2
\* the sampling loop takes a sample only while the profile holds fewer
MaxLoopSamples == 2

(***************************************************************************)
(* Optional values: None is the empty tuple, Some(x) the one-tuple.        *)
(***************************************************************************)
None == << >>
Some(x) == << x >>
TheValue(o) == o[1]

(***************************************************************************)
(* Mode (src/profiler.py 69-150).                                          *)
(***************************************************************************)
SIMPLE == "simple"
CPU_INSTRUMENTED == "instrumented"
CPU_SAMPLING == "sampling"
CPU_MEMORY_SAMPLING == "memory_sampling"
CPU_LINEBYLINE == "linebyline"
RPC_ONLY == "rpc"
RPC_AND_CPU_INSTRUMENTED == "rpc_instrumented"
RPC_AND_CPU_SAMPLING == "rpc_sampling"
RPC_AND_CPU_MEMORY_SAMPLING == "rpc_memory_sampling"
RPC_AND_CPU_LINEBYLINE == "rpc_linebyline"

\* the ten enumerated modes, the list of get_mode's membership test
Modes ==
    { SIMPLE, CPU_INSTRUMENTED, CPU_SAMPLING, CPU_MEMORY_SAMPLING,
      CPU_LINEBYLINE, RPC_ONLY, RPC_AND_CPU_INSTRUMENTED,
      RPC_AND_CPU_SAMPLING, RPC_AND_CPU_MEMORY_SAMPLING,
      RPC_AND_CPU_LINEBYLINE }

\* the modes whose name says that RPCs are profiled (comments of lines 87-92)
RpcNamedModes ==
    { RPC_ONLY, RPC_AND_CPU_INSTRUMENTED, RPC_AND_CPU_SAMPLING,
      RPC_AND_CPU_MEMORY_SAMPLING, RPC_AND_CPU_LINEBYLINE }

\* values a header or a cookie can carry: the modes, the empty string and
\* two strings that are no mode (one differs from a mode by case only)
SignalValues == Modes \cup { "", "bogus", "RPC" }

\* cookies.get_cookie_value("g-m-p-mode"): the cookie's value, None without
\* the cookie
get_cookie_value(env) == env.cookie

\* get_mode reading the cookie although the header is present
get_mode_ignoring_header(env) ==
    LET mode == get_cookie_value(env)
    IN  IF mode = None \/ TheValue(mode) \notin Modes
        THEN RPC_ONLY ELSE TheValue(mode)

\* Mode.get_mode: env is [header, cookie], each None or Some(string)
get_mode(env) ==
    LET mode == IF env.header # None THEN env.header
                ELSE get_cookie_value(env)
    IN  IF mode = None \/ TheValue(mode) \notin Modes
        THEN RPC_ONLY ELSE TheValue(mode)

is_rpc_enabled(mode) ==
    mode \in { RPC_ONLY, RPC_AND_CPU_INSTRUMENTED, RPC_AND_CPU_SAMPLING,
               RPC_AND_CPU_MEMORY_SAMPLING }

is_sampling_enabled(mode) ==
    mode \in { CPU_SAMPLING, CPU_MEMORY_SAMPLING, RPC_AND_CPU_SAMPLING,
               RPC_AND_CPU_MEMORY_SAMPLING }

is_memory_sampling_enabled(mode) ==
    mode \in { CPU_MEMORY_SAMPLING, RPC_AND_CPU_MEMORY_SAMPLING }

\* the list of is_instrumented_enabled holding a sampling mode as well
is_instrumented_enabled_wide(mode) ==
    mode \in { CPU_INSTRUMENTED, RPC_AND_CPU_INSTRUMENTED, CPU_SAMPLING }

is_instrumented_enabled(mode) ==
    mode \in { CPU_INSTRUMENTED, RPC_AND_CPU_INSTRUMENTED }

is_linebyline_enabled(mode) ==
    mode \in { CPU_LINEBYLINE, RPC_AND_CPU_LINEBYLINE }

(***************************************************************************)
(* The result cache (src/profiler.py 314-383).                             *)
(*                                                                         *)
(* A RequestStats object is [request_id, body, size, temporary_redirect,   *)
(* disabled]: body stands for everything else the object holds, size is    *)
(* the length of zlib.compress(pickle.dumps(self)).  A byte of that string *)
(* is <<object, position>>, so the strings of two different objects differ *)
(* and a string carries its own length, as a zlib stream does.             *)
(***************************************************************************)
\* memcache.MAX_VALUE_SIZE - 1024 in the source; scaled down to two bytes
_MEMCACHE_CHUNKSIZE == 2

RequestIds == { "a", "b" }

Bodies == 1 .. MaxStores

RequestStatsSet ==
    [ request_id : RequestIds, body : Bodies, size : 1 .. MaxCLen,
      temporary_redirect : BOOLEAN, disabled : BOOLEAN ]

\* zlib.compress(pickle.dumps(self))
Compress(st) == [ i \in 1 .. st.size |-> << st, i >> ]

\* the string s starts with the complete stream of the object st
IsStreamOf(s, st) ==
    /\ Len(s) >= st.size
    /\ \A i \in 1 .. st.size : s[i] = << st, i >>

\* pickle.loads(zlib.decompress(s)): zlib reads one complete stream from
\* the front of s and ignores what follows it; a string that does not
\* start with a complete stream makes it raise zlib.error
Decompress(s) ==
    IF s # << >> /\ s[1][2] = 1 /\ IsStreamOf(s, s[1][1])
    THEN [ kind |-> "stats", value |-> Some(s[1][1]) ]
    ELSE [ kind |-> "raise", value |-> None ]

\* RequestStats.memcache_key for a non-empty request id
memcache_key(request_id, index) == << request_id, index >>

\* compressed_pickled[i:i + _MEMCACHE_CHUNKSIZE], i counted from 0
Slice(s, i) ==
    SubSeq(s, i + 1,
           IF i + _MEMCACHE_CHUNKSIZE < Len(s)
           THEN i + _MEMCACHE_CHUNKSIZE ELSE Len(s))

\* xrange(0, len(compressed_pickled), _MEMCACHE_CHUNKSIZE)
ChunkOffsets(n) ==
    { i \in 0 .. n : i < n /\ i % _MEMCACHE_CHUNKSIZE = 0 }

\* the setmap of RequestStats.store
SetMap(st) ==
    [ k \in { memcache_key(st.request_id, i) : i \in ChunkOffsets(st.size) }
        |-> Slice(Compress(st), k[2]) ]

(***************************************************************************)
(* State.                                                                  *)
(***************************************************************************)
VARIABLES
    memcache,   \* the backing store: present key -> stored chunk
    stores,     \* number of RequestStats.store calls made so far
    good,       \* history: per request id, the object of the last store if
                \* every chunk was written and nothing was evicted since
    prior,      \* history: per request id, the object of the fully successful
                \* store that the store recorded in good overwrote
    getter,     \* per caller of RequestStats.get: its position and locals
    environ,    \* the request's signals: [header, cookie]
    app,        \* the wrapped application's behaviour on this request
    pc,         \* position of the request thread
    rp,         \* the RequestProfiler object
    local,      \* locals of profile_start_response and of the run in progress
    out,        \* the values profile_start_response has yielded so far
    prof,       \* the sampling_profiler.Profile object
    threads,    \* the InspectingThread objects created so far
    now,        \* time_fxn(), in sampling intervals (1 / SAMPLES_PER_SECOND s)
    hist,       \* history of the request: what has happened so far
    store_log,  \* history of RequestStats.store: the ids ever stored, and
                \* the last call's object, retval and return value
    stacks,     \* Profile.samples with the stack traces: the samples that
                \* _call_tree and results are applied to
    call_tree,  \* what Profile._call_tree(stacks) returned, None before
    sampling_results,   \* what Profile.results() returned, None before
    line_profile,       \* the linebyline Profile and what its backend holds
    line_results,       \* what linebyline Profile.results() did, None before
    logger_handlers,    \* number of capture handlers logging.getLogger() holds
    handler_log,        \* history of RequestStatsHandler.get: the calls begun
                        \* and the profiles written to responses
    memcache_fns,       \* the module attributes memcache.add and memcache.delete
    mw                  \* per concurrent request: its position in
                        \* ProfilerWSGIMiddleware.__call__ and its locals

cacheVars == << memcache, stores, good, prior, getter, store_log >>

reqVars == << environ, app, pc, rp, local, out, prof, threads, now, hist >>

pureVars ==
    << stacks, call_tree, sampling_results, line_profile, line_results >>

otherVars == << logger_handlers, handler_log, memcache_fns, mw >>

vars == << memcache, stores, good, prior, getter, store_log,
           environ, app, pc, rp, local, out, prof, threads, now, hist,
           stacks, call_tree, sampling_results, line_profile, line_results,
           logger_handlers, handler_log, memcache_fns, mw >>

\* no capture handler on the root logger, no call of RequestStatsHandler,
\* memcache.add and memcache.delete as the SDK defines them (a function is
\* the sequence of the requests whose lambdas wrap the SDK's function, the
\* outermost last), no request inside the middleware
NoHandlerLog == [ calls |-> 0, served |-> << >>, store_failed |-> FALSE ]

OriginalFns == [ add |-> << >>, delete |-> << >> ]

NoOther ==
    /\ logger_handlers = 0
    /\ handler_log = NoHandlerLog
    /\ memcache_fns = OriginalFns
    /\ mw = << >>

Getters == { "g1" }

\* the request ids a caller passes to RequestStats.get: None, the empty
\* string of a request without request_id parameter, a stored or unknown id
GetIds == { None } \cup { Some(id) : id \in RequestIds \cup { "" } }

\* arg is the argument of the call; keys_read and lens are history, the
\* offsets of the keys that memcache.get was called with and the lengths of
\* what it returned; steady says that no store and no eviction touched the
\* request id since the call began
IdleGetter ==
    [ pc |-> "idle", arg |-> None, request_id |-> "", i |-> 0,
      chunks |-> << >>,
      result |-> [ kind |-> "None", value |-> None ],
      keys_read |-> << >>, lens |-> << >>, steady |-> TRUE,
      expect |-> None, expectPrior |-> None ]

NoStoreLog ==
    [ ever |-> { }, self |-> None, retval |-> { }, returned |-> None ]

CacheEmpty ==
    /\ memcache = << >>
    /\ stores = 0
    /\ good = [ id \in RequestIds |-> None ]
    /\ prior = [ id \in RequestIds |-> None ]
    /\ getter = [ g \in Getters |-> IdleGetter ]
    /\ store_log = NoStoreLog

(***************************************************************************)
(* RequestStats.store (src/profiler.py 343-353).                           *)
(***************************************************************************)
\* memcache.set_multi writing with the semantics of add_multi: a key that
\* is present keeps its old value
MemcacheAddMulti(cache, setmap, failed) ==
    LET written == (DOMAIN setmap \ failed) \ DOMAIN cache
    IN  [ k \in DOMAIN cache \cup written |->
            IF k \in written THEN setmap[k] ELSE cache[k] ]

\* memcache.set_multi(setmap) when the writes of the keys in failed fail:
\* every other key of setmap is set, overwriting what it held
MemcacheSetMulti(cache, setmap, failed) ==
    LET written == DOMAIN setmap \ failed
    IN  [ k \in DOMAIN cache \cup written |->
            IF k \in written THEN setmap[k] ELSE cache[k] ]

\* a get in progress on request_id no longer reads one undisturbed store,
\* and the entry is no longer what a get of request_id has read
Disturb(gs, request_id) ==
    [ g \in DOMAIN gs |->
        IF gs[g].pc = "reading" /\ gs[g].request_id = request_id
        THEN [ gs[g] EXCEPT !.expect = None, !.expectPrior = None,
                            !.steady = FALSE ]
        ELSE IF gs[g].pc = "got" /\ gs[g].request_id = request_id
             THEN [ gs[g] EXCEPT !.steady = FALSE ]
             ELSE gs[g] ]

\* store returning True whatever set_multi returned
StoreReturnsTrue(retval) == TRUE

\* line 353: return not retval, retval the keys whose write failed
StoreReturn(retval) == retval = { }

\* self.store() for the object st; set_multi's failures are the store's choice
RequestStats_store(st, failed) ==
    /\ store_log' = [ ever |-> store_log.ever \cup { st.request_id },
                      self |-> Some(st),
                      retval |-> failed,
                      returned |-> Some(StoreReturn(failed)) ]
    /\ memcache' = MemcacheSetMulti(memcache, SetMap(st), failed)
    /\ good' = [ good EXCEPT ![st.request_id] =
                    IF failed = {} THEN Some(st) ELSE None ]
    /\ prior' = [ prior EXCEPT ![st.request_id] =
                    IF failed = {} THEN good[st.request_id] ELSE None ]
    /\ getter' = Disturb(getter, st.request_id)

\* a request stores the RequestStats object it has built (line 550)
Store ==
    /\ stores < MaxStores
    /\ \E st \in RequestStatsSet :
         /\ st.body = stores + 1
         /\ st.disabled = FALSE
         /\ st.temporary_redirect = FALSE
         /\ \E failed \in SUBSET DOMAIN SetMap(st) :
              RequestStats_store(st, failed)
    /\ stores' = stores + 1
    /\ UNCHANGED << reqVars, pureVars, otherVars >>

\* memcache drops an entry: retention is best effort
Evict ==
    \E k \in DOMAIN memcache :
        /\ memcache' = [ j \in DOMAIN memcache \ { k } |-> memcache[j] ]
        /\ good' = [ good EXCEPT ![k[1]] = None ]
        /\ prior' = [ prior EXCEPT ![k[1]] = None ]
        /\ getter' = Disturb(getter, k[1])
        /\ UNCHANGED << stores, store_log, reqVars, pureVars, otherVars >>

(***************************************************************************)
(* RequestStats.get (src/profiler.py 355-377).                             *)
(***************************************************************************)
\* memcache.get(key) or ''
MemcacheGetOrEmpty(cache, key) ==
    IF key \in DOMAIN cache THEN cache[key] ELSE << >>

\* the loop goes on only after a chunk longer than a full chunk: never
MoreChunksNever(chunk) == Len(chunk) > _MEMCACHE_CHUNKSIZE

\* line 368 negated: the loop goes on after a chunk of full size
MoreChunks(chunk) == ~ (Len(chunk) < _MEMCACHE_CHUNKSIZE)

\* lines 357 and 381: not request_id, which holds of None and of ''
IsFalsy(request_id) == request_id = None \/ TheValue(request_id) = ""

\* the index advancing by one byte
NextOffsetByOne(i) == i + 1

\* line 370: i += _MEMCACHE_CHUNKSIZE
NextOffset(i) == i + _MEMCACHE_CHUNKSIZE

\* the joined string decompressed although it is empty
GetResultUnguarded(compressed_pickled) ==
    Decompress(compressed_pickled)

\* lines 372-377: ''.join(chunks), then decompress and unpickle if not empty
GetResult(compressed_pickled) ==
    IF compressed_pickled # << >>
    THEN Decompress(compressed_pickled)
    ELSE [ kind |-> "None", value |-> None ]

\* get returning None for a falsy request id only after one read
GetNoneAfterRead(request_id) ==
    [ IdleGetter EXCEPT !.pc = "got", !.arg = request_id,
                        !.keys_read = << 0 >>, !.lens = << 0 >> ]

\* lines 357-358: return None, before any memcache.get
GetNone(request_id) ==
    [ IdleGetter EXCEPT !.pc = "got", !.arg = request_id ]

\* lines 357-363: no backing-store read for an empty request id
GetStart(g) ==
    /\ getter[g].pc = "idle"
    /\ \E request_id \in GetIds :
         getter' = [ getter EXCEPT ![g] =
            IF IsFalsy(request_id)
            THEN GetNone(request_id)
            ELSE [ IdleGetter EXCEPT
                     !.pc = "reading", !.arg = request_id,
                     !.request_id = TheValue(request_id),
                     !.expect = good[TheValue(request_id)],
                     !.expectPrior = prior[TheValue(request_id)] ] ]
    /\ UNCHANGED << memcache, stores, good, prior, store_log, reqVars,
                    pureVars, otherVars >>

\* one pass of the loop of lines 364-370; the pass that breaks also runs
\* lines 372-377, which read no shared state
GetRead(g) ==
    /\ getter[g].pc = "reading"
    /\ LET gt == getter[g]
           key == memcache_key(gt.request_id, gt.i)
           chunk == MemcacheGetOrEmpty(memcache, key)
           chunks == gt.chunks \o chunk
           read == [ gt EXCEPT !.chunks = chunks,
                               !.keys_read = Append(@, gt.i),
                               !.lens = Append(@, Len(chunk)) ]
       IN  getter' = [ getter EXCEPT ![g] =
              IF MoreChunks(chunk)
              THEN [ read EXCEPT !.i = NextOffset(gt.i) ]
              ELSE [ read EXCEPT !.pc = "got",
                                 !.result = GetResult(chunks) ] ]
    /\ UNCHANGED << memcache, stores, good, prior, store_log, reqVars,
                    pureVars, otherVars >>

\* the caller has used the result; it may call get again
GetReturn(g) ==
    /\ getter[g].pc = "got"
    /\ getter' = [ getter EXCEPT ![g] = IdleGetter ]
    /\ UNCHANGED << memcache, stores, good, prior, store_log, reqVars,
                    pureVars, otherVars >>

(***************************************************************************)
(* RequestStatsHandler.get (src/profiler.py 280-312), served concurrently  *)
(* by the handlers h; each call is for one request id, and the handler's   *)
(* RequestStats.get runs as above, in getter[h].                           *)
(***************************************************************************)
\* most calls of RequestStatsHandler.get
MaxRetrievals == 2

Handlers == { "h1", "h2" }

\* a request ends and stores its bundle (line 550), flagged
\* temporary_redirect when its response was a redirect
StoreProfile ==
    /\ stores = 0
    /\ \E st \in RequestStatsSet :
         /\ st.request_id = "a"
         /\ st.body = 1
         /\ st.disabled = FALSE
         /\ \E failed \in SUBSET DOMAIN SetMap(st) :
              RequestStats_store(st, failed)
    /\ stores' = stores + 1
    /\ UNCHANGED << reqVars, pureVars, otherVars >>

\* lines 288-296: the call begins and RequestStats.get(request_id) starts
HandlerGet(h) ==
    /\ getter[h].pc = "idle"
    /\ handler_log.calls < MaxRetrievals
    /\ \E request_id \in RequestIds :
         getter' = [ getter EXCEPT ![h] =
            [ IdleGetter EXCEPT
                !.pc = "reading", !.arg = Some(request_id),
                !.request_id = request_id,
                !.expect = good[request_id],
                !.expectPrior = prior[request_id] ] ]
    /\ handler_log' = [ handler_log EXCEPT !.calls = @ + 1 ]
    /\ UNCHANGED << memcache, stores, good, prior, store_log, reqVars,
                    pureVars, logger_handlers, memcache_fns, mw >>

\* line 298: if request_stats and not request_stats.disabled
Serves(request_stats) == ~ request_stats.disabled

\* lines 298-312 once RequestStats.get has returned (an exception of get
\* ends the call): a profile that is not disabled is written to the
\* response, and one flagged temporary_redirect is marked disabled and
\* stored again
HandlerRespond(h) ==
    /\ getter[h].pc = "got"
    /\ LET r == getter[h].result
       IN  IF r.kind = "stats" /\ Serves(TheValue(r.value))
           THEN LET st == TheValue(r.value)
                    served == Append(handler_log.served,
                                     [ handler |-> h, stats |-> st ])
                IN  IF st.temporary_redirect
                    THEN \E failed \in
                              SUBSET DOMAIN SetMap([ st EXCEPT
                                                       !.disabled = TRUE ]) :
                           /\ store_log' =
                                [ ever |-> store_log.ever
                                             \cup { st.request_id },
                                  self |-> Some([ st EXCEPT
                                                    !.disabled = TRUE ]),
                                  retval |-> failed,
                                  returned |-> Some(StoreReturn(failed)) ]
                           /\ memcache' = MemcacheSetMulti(memcache,
                                SetMap([ st EXCEPT !.disabled = TRUE ]),
                                failed)
                           /\ good' = [ good EXCEPT ![st.request_id] =
                                IF failed = {}
                                THEN Some([ st EXCEPT !.disabled = TRUE ])
                                ELSE None ]
                           /\ prior' = [ prior EXCEPT ![st.request_id] =
                                IF failed = {}
                                THEN good[st.request_id] ELSE None ]
                           /\ getter' =
                                [ Disturb(getter, st.request_id)
                                    EXCEPT ![h] = IdleGetter ]
                           /\ handler_log' =
                                [ handler_log EXCEPT
                                    !.served = served,
                                    !.store_failed = @ \/ failed # {} ]
                    ELSE /\ handler_log' =
                              [ handler_log EXCEPT !.served = served ]
                         /\ getter' = [ getter EXCEPT ![h] = IdleGetter ]
                         /\ UNCHANGED << memcache, good, prior, store_log >>
           ELSE /\ getter' = [ getter EXCEPT ![h] = IdleGetter ]
                /\ UNCHANGED << memcache, good, prior, store_log,
                                handler_log >>
    /\ UNCHANGED << stores, reqVars, pureVars, logger_handlers,
                    memcache_fns, mw >>

(***************************************************************************)
(* The sampling profiler (src/sampling_profiler.py).                       *)
(***************************************************************************)
\* InspectingThread.SAMPLES_PER_SECOND
SAMPLES_PER_SECOND == 250

\* memory_sample_rate of the Profile of a memory-sampling mode (line 508)
MemorySampleRate == 25

\* one clock unit, a sampling interval, in milliseconds
MsPerInterval == 1000 \div SAMPLES_PER_SECOND

Max(a, b) == IF a >= b THEN a ELSE b

\* Profile.__init__ lines 154-158; the operands are integers, so Python 2
\* divides them as integers and round() changes nothing
memory_sample_every(memory_sample_rate) ==
    IF memory_sample_rate # 0
    THEN Max(1, SAMPLES_PER_SECOND \div memory_sample_rate)
    ELSE 0

\* sampling_profiler.Profile(memory_sample_rate) constructed at time t
NewProfile(memory_sample_rate, t) ==
    [ memory_sample_every |-> memory_sample_every(memory_sample_rate),
      samples |-> << >>,
      memory_samples |-> << >>,
      current_request_thread_id |-> None,
      inspecting_thread |-> None,
      start_time |-> t ]

\* InspectingThread.__init__; state is the thread's position, launch is
\* history: the clock reading of line 87 that the loop was launched with
NewThread ==
    [ state |-> "new", stop_event |-> FALSE, sample_number |-> 0,
      next_sample_time |-> 0, launch |-> 0 ]

\* threading has current_thread: ThreadFilter.__init__ (profiler.py 391)
\* has called it before any Profile.start of the request
HasCurrentThread == TRUE

\* the OrderedDict memory_samples as the sequence of its keys: assigning to
\* a key it holds keeps the key's place
OrderedPut(keys, k) ==
    IF \E j \in 1 .. Len(keys) : keys[j] = k THEN keys ELSE Append(keys, k)

\* take_sample recording memory only by the sample number
take_sample_unforced(p, sample_number, force_memory, t) ==
    LET timestamp_ms == (t - p.start_time) * MsPerInterval
        sampled == [ p EXCEPT !.samples =
                        Append(@, [ timestamp_ms |-> timestamp_ms ]) ]
    IN  IF p.memory_sample_every # 0
           /\ sample_number % p.memory_sample_every = 0
        THEN [ sampled EXCEPT !.memory_samples = OrderedPut(@, timestamp_ms) ]
        ELSE sampled

\* Profile.take_sample at time t.  The request thread is alive, so
\* sys._current_frames() holds its frame and one sample is appended; a
\* sample is its timestamp, the stack it holds is left out
take_sample(p, sample_number, force_memory, t) ==
    LET timestamp_ms == (t - p.start_time) * MsPerInterval
        sampled == [ p EXCEPT !.samples =
                        Append(@, [ timestamp_ms |-> timestamp_ms ]) ]
    IN  IF p.memory_sample_every # 0
           /\ (force_memory \/ sample_number % p.memory_sample_every = 0)
        THEN [ sampled EXCEPT !.memory_samples = OrderedPut(@, timestamp_ms) ]
        ELSE sampled

(***************************************************************************)
(* The request (src/profiler.py 397-550 and 600-659).                      *)
(***************************************************************************)
\* what an application does on a request: its call raises, or it returns a
\* generator or another iterable that produces the values 1 .. n and then
\* ends or raises
Apps ==
    [ returns : { "generator", "iterable" }, n : 0 .. MaxChunks,
      ending : { "stop", "raise" }, call_raises : { FALSE } ]
    \cup
    { [ returns |-> "iterable", n |-> 0, ending |-> "stop",
        call_raises |-> TRUE ] }

\* the values the application produces, in order
AppValues(a) == [ i \in 1 .. a.n |-> i ]

AppRaises(a) == a.call_raises \/ a.ending = "raise"

\* appstats_prof.wrap(app): the interceptor hands the application's values
\* on unchanged; its result is a generator or of the application's kind.
\* As a generator it runs the application's call at the first pull.
AppstatsWrap(a) ==
    { a,
      IF a.call_raises
      THEN [ returns |-> "generator", n |-> 0, ending |-> "raise",
             call_raises |-> FALSE ]
      ELSE [ a EXCEPT !.returns = "generator" ] }

\* RequestProfiler.__init__
NewRequestProfiler(request_id, mode) ==
    [ request_id |-> request_id, mode |-> mode,
      instrumented_prof |-> FALSE, sampling_prof |-> FALSE,
      linebyline_prof |-> FALSE, appstats_prof |-> FALSE,
      temporary_redirect |-> FALSE ]

NoLocal ==
    [ app |-> [ returns |-> "iterable", n |-> 0, ending |-> "stop",
                call_raises |-> FALSE ],
      result_fxn_wrapper |-> "placeholder",
      result |-> "none", pos |-> 0,
      fxn |-> "none", in_wrapper |-> "none",
      outcome |-> [ kind |-> "none", value |-> 0 ] ]

NoHist == [ stopped |-> FALSE, loop_samples |-> 0 ]

\* the request before the middleware is called with environment env and
\* application a
RequestAt(env, a) ==
    /\ environ = env
    /\ app = a
    /\ pc = "mw"
    /\ rp = NewRequestProfiler("", RPC_ONLY)
    /\ local = NoLocal
    /\ out = << >>
    /\ prof = NewProfile(0, 0)
    /\ threads = << >>
    /\ now = 0
    /\ hist = NoHist

NoEnviron == [ header |-> None, cookie |-> None ]

NoApp == NoLocal.app

\* the environments of the profiled request: no signal, or a mode header
RequestEnvirons ==
    { [ header |-> h, cookie |-> None ] :
        h \in { None } \cup { Some(m) : m \in Modes } }

\* the id base64.urlsafe_b64encode(os.urandom(5)) gives the request
CurrentRequestId == "a"

\* ProfilerWSGIMiddleware.__call__ lines 611-653 for a profiled request:
\* the profiler is built with the mode of the request's signals; the body
\* of profile_start_response starts at the first pull of line 654
MiddlewareCall ==
    /\ pc = "mw"
    /\ rp' = NewRequestProfiler(CurrentRequestId, get_mode(environ))
    /\ pc' = "psr_begin"
    /\ UNCHANGED << cacheVars, pureVars, otherVars, environ, app, local, out, prof, threads,
                    now, hist >>

\* the if / elif chain of lines 500-525: the strategy whose run wraps the
\* handler, "placeholder" for the lambda of line 495
ResultFxnWrapper(mode) ==
    IF is_sampling_enabled(mode) THEN "sampling"
    ELSE IF is_linebyline_enabled(mode) THEN "linebyline"
    ELSE IF is_instrumented_enabled(mode) THEN "instrumented"
    ELSE "placeholder"

\* profile_start_response lines 468-525; lines 480-481 add the capture
\* handler to the root logger
PsrBegin ==
    /\ pc = "psr_begin"
    /\ IF rp.mode = SIMPLE
       THEN /\ pc' = "simple_call"
            /\ local' = [ NoLocal EXCEPT !.app = app ]
            /\ UNCHANGED << rp, prof, logger_handlers >>
       ELSE /\ pc' = "run_enter"
            /\ logger_handlers' = logger_handlers + 1
            /\ \E a \in (IF is_rpc_enabled(rp.mode)
                         THEN AppstatsWrap(app) ELSE { app }) :
                 local' = [ NoLocal EXCEPT
                     !.app = a,
                     !.result_fxn_wrapper = ResultFxnWrapper(rp.mode),
                     !.fxn = "app" ]
            /\ rp' = [ rp EXCEPT
                 !.appstats_prof = is_rpc_enabled(rp.mode),
                 !.sampling_prof = (ResultFxnWrapper(rp.mode) = "sampling"),
                 !.linebyline_prof =
                     (ResultFxnWrapper(rp.mode) = "linebyline"),
                 !.instrumented_prof =
                     (ResultFxnWrapper(rp.mode) = "instrumented") ]
            /\ prof' = IF is_sampling_enabled(rp.mode)
                       THEN NewProfile(
                              IF is_memory_sampling_enabled(rp.mode)
                              THEN MemorySampleRate ELSE 0, now)
                       ELSE prof
    /\ UNCHANGED << cacheVars, pureVars, handler_log, memcache_fns, mw,
                    environ, app, out, threads, now, hist >>

\* line 473: result = app(environ, start_response) in SIMPLE mode
SimpleCall ==
    /\ pc = "simple_call"
    /\ IF local.app.call_raises
       THEN pc' = "raised" /\ UNCHANGED local
       ELSE /\ pc' = "iter"
            /\ local' = [ local EXCEPT !.result = local.app.returns ]
    /\ UNCHANGED << cacheVars, pureVars, otherVars, environ, app, rp, out, prof, threads,
                    now, hist >>

\* the next value of the application's result after pos values: a value,
\* the end of the iteration, or the application's exception
Pull(a, pos) ==
    IF pos < a.n THEN [ kind |-> "value", value |-> pos + 1 ]
    ELSE IF a.ending = "raise" THEN [ kind |-> "error", value |-> 0 ]
    ELSE [ kind |-> "StopIteration", value |-> 0 ]

\* Profile.start starting the thread of the last run once more
RestartedThreads(ths) ==
    IF ths = << >>
    THEN << [ NewThread EXCEPT !.state = "started" ] >>
    ELSE [ ths EXCEPT ![Len(ths)] = [ NewThread EXCEPT !.state = "started" ] ]

\* lines 396-398: a new InspectingThread is created and started
StartedThreads(ths) ==
    Append(ths, [ NewThread EXCEPT !.state = "started" ])

\* entering result_fxn_wrapper(fxn): Profile.start (sampling_profiler.py
\* 384-398) for the sampling strategy; the other strategies keep no state
\* that the model follows
RunEnter ==
    /\ pc = "run_enter"
    /\ pc' = "run_fxn"
    /\ local' = [ local EXCEPT !.in_wrapper = local.result_fxn_wrapper ]
    /\ IF local.result_fxn_wrapper = "sampling" /\ HasCurrentThread
       THEN /\ threads' = StartedThreads(threads)
            /\ prof' = [ prof EXCEPT
                 !.current_request_thread_id = Some("request"),
                 !.inspecting_thread = Some(Len(StartedThreads(threads))) ]
       ELSE UNCHANGED << threads, prof >>
    /\ UNCHANGED << cacheVars, pureVars, otherVars, environ, app, rp, out, now, hist >>

\* fxn() inside the wrapper: the handler call of line 528 or result.next
\* of line 535
RunFxn ==
    /\ pc = "run_fxn"
    /\ pc' = "run_exit"
    /\ local' =
         IF local.fxn = "app"
         THEN IF local.app.call_raises
              THEN [ local EXCEPT
                       !.outcome = [ kind |-> "error", value |-> 0 ] ]
              ELSE [ local EXCEPT
                       !.outcome = [ kind |-> "return", value |-> 0 ],
                       !.result = local.app.returns ]
         ELSE [ local EXCEPT
                  !.outcome = Pull(local.app, local.pos),
                  !.pos = IF local.pos < local.app.n
                          THEN local.pos + 1 ELSE local.pos ]
    /\ UNCHANGED << cacheVars, pureVars, otherVars, environ, app, rp, out, prof, threads,
                    now, hist >>

\* the value is pulled and not yielded
YieldNothing(yielded, o) == yielded

\* yield of lines 475, 535 and 541: the value pulled, if the pull gave one
YieldFrom(yielded, o) ==
    IF o.kind = "value" THEN Append(yielded, o.value) ELSE yielded

\* the test of line 531 that never holds
IsGeneratorTypeNever(result) == FALSE

\* line 531: type(result) == GeneratorType
IsGeneratorType(result) == result = "generator"

\* where profile_start_response goes when the wrapper has returned or
\* raised (lines 528-541)
PcAfterRun(l) ==
    IF l.outcome.kind = "error" THEN "raised"
    ELSE IF l.fxn = "app"
         THEN IF IsGeneratorType(l.result) THEN "run_enter" ELSE "iter"
         ELSE IF l.outcome.kind = "value" THEN "yield_gen" ELSE "finish"

\* the locals and the yielded values after the wrapper has returned
LeaveRun ==
    /\ pc' = PcAfterRun(local)
    /\ local' = [ local EXCEPT
         !.in_wrapper = "none",
         !.fxn = IF PcAfterRun(local) = "run_enter" THEN "next" ELSE "none",
         !.outcome = [ kind |-> "none", value |-> 0 ] ]
    /\ out' = YieldFrom(out, local.outcome)

\* self.stop() called only after fxn has returned
RunStopsOnReturn(outcome) == outcome.kind \in { "return", "value" }

\* sampling_profiler.py 412-415: try: return fxn() finally: self.stop();
\* the finally clause runs whatever the outcome of fxn
RunStops(outcome) == TRUE

\* leaving the wrapper.  Profile.run's finally calls Profile.stop, and
\* InspectingThread.stop sets the stop event (sampling_profiler.py 66-69);
\* the other strategies return at once
RunExit ==
    /\ pc = "run_exit"
    /\ IF local.result_fxn_wrapper = "sampling"
          /\ prof.inspecting_thread # None
          /\ RunStops(local.outcome)
       THEN /\ threads' = [ threads EXCEPT
                 ![TheValue(prof.inspecting_thread)].stop_event = TRUE ]
            /\ pc' = "run_join"
            /\ UNCHANGED << local, out >>
       ELSE LeaveRun /\ UNCHANGED threads
    /\ UNCHANGED << cacheVars, pureVars, otherVars, environ, app, rp, prof, now, hist >>

\* join returning although the thread still runs
JoinedAtOnce(t) == TRUE

\* self.join() of line 70 returns when the thread has ended
Joined(t) == threads[t].state = "dead"

\* InspectingThread.stop line 70 and Profile.stop line 405, then the
\* return (or the exception) of Profile.run
RunJoin ==
    /\ pc = "run_join"
    /\ Joined(TheValue(prof.inspecting_thread))
    /\ prof' = [ prof EXCEPT !.inspecting_thread = None ]
    /\ hist' = [ hist EXCEPT !.stopped = TRUE ]
    /\ LeaveRun
    /\ UNCHANGED << cacheVars, pureVars, otherVars, environ, app, rp, threads, now >>

\* the consumer pulls the next value: line 535 again
ResumeGen ==
    /\ pc = "yield_gen"
    /\ pc' = "run_enter"
    /\ local' = [ local EXCEPT !.fxn = "next" ]
    /\ UNCHANGED << cacheVars, pureVars, otherVars, environ, app, rp, out, prof, threads,
                    now, hist >>

\* for value in result: yield value (lines 474-475 and 540-541)
Iter ==
    /\ pc = "iter"
    /\ LET o == Pull(local.app, local.pos)
       IN  /\ pc' = IF o.kind = "value" THEN "yield_iter"
                    ELSE IF o.kind = "error" THEN "raised" ELSE "finish"
           /\ out' = YieldFrom(out, o)
           /\ local' = [ local EXCEPT
                !.pos = IF o.kind = "value" THEN @ + 1 ELSE @ ]
    /\ UNCHANGED << cacheVars, pureVars, otherVars, environ, app, rp, prof, threads, now, hist >>

\* the consumer pulls the next value of a result that is no generator
ResumeIter ==
    /\ pc = "yield_iter"
    /\ pc' = "iter"
    /\ UNCHANGED << cacheVars, pureVars, otherVars, environ, app, rp, local, out, prof, threads,
                    now, hist >>

\* lines 543-550: the end of the request; outside SIMPLE mode the capture
\* handler is removed from the root logger (line 543), then
\* RequestStats(self, environ) is built and stored, its compressed length
\* depending on what was profiled
Finish ==
    /\ pc = "finish"
    /\ pc' = "done"
    /\ stores < MaxStores
    /\ \E size \in 1 .. MaxCLen :
         LET st == [ request_id |-> rp.request_id, body |-> stores + 1,
                     size |-> size,
                     temporary_redirect |-> rp.temporary_redirect,
                     disabled |-> FALSE ]
         IN  \E failed \in SUBSET DOMAIN SetMap(st) :
                 RequestStats_store(st, failed)
    /\ stores' = stores + 1
    /\ logger_handlers' = IF rp.mode = SIMPLE THEN logger_handlers
                          ELSE logger_handlers - 1
    /\ UNCHANGED << environ, app, rp, local, out, prof, threads, now, hist,
                    pureVars, handler_log, memcache_fns, mw >>

(***************************************************************************)
(* InspectingThread.run (src/sampling_profiler.py 75-105), thread t.       *)
(***************************************************************************)
ThreadIds == 1 .. Len(threads)

\* lines 87-88
ThreadRunBegin(t) ==
    /\ threads[t].state = "started"
    /\ threads' = [ threads EXCEPT ![t].state = "check",
                                   ![t].next_sample_time = now,
                                   ![t].launch = now,
                                   ![t].sample_number = 0 ]
    /\ UNCHANGED << cacheVars, pureVars, otherVars, environ, app, pc, rp, local, out, prof,
                    now, hist >>

\* the stop event never seen
should_stop_never(t) == FALSE

\* InspectingThread.should_stop (lines 72-73): self._stop_event.is_set()
should_stop(t) == threads[t].stop_event

\* line 91: while not self.should_stop()
ThreadCheck(t) ==
    /\ threads[t].state = "check"
    /\ threads[t].stop_event \/ hist.loop_samples < MaxLoopSamples
    /\ threads' = [ threads EXCEPT ![t].state =
                      IF should_stop(t) THEN "final" ELSE "take" ]
    /\ UNCHANGED << cacheVars, pureVars, otherVars, environ, app, pc, rp, local, out, prof,
                    now, hist >>

\* lines 93-94
ThreadTake(t) ==
    /\ threads[t].state = "take"
    /\ prof' = take_sample(prof, threads[t].sample_number, FALSE, now)
    /\ threads' = [ threads EXCEPT ![t].state = "pace",
                                   ![t].sample_number = @ + 1 ]
    /\ hist' = [ hist EXCEPT !.loop_samples = @ + 1 ]
    /\ UNCHANGED << cacheVars, pureVars, otherVars, environ, app, pc, rp, local, out, now >>

\* lines 97-102: the target advances by one interval; the thread sleeps
\* only if the target lies in the future
ThreadPace(t) ==
    /\ threads[t].state = "pace"
    /\ LET next_sample_time == threads[t].next_sample_time + 1
           seconds_to_sleep == next_sample_time - now
       IN  threads' = [ threads EXCEPT
               ![t].next_sample_time = next_sample_time,
               ![t].state = IF seconds_to_sleep > 0
                            THEN "sleep" ELSE "check" ]
    /\ UNCHANGED << cacheVars, pureVars, otherVars, environ, app, pc, rp, local, out, prof,
                    now, hist >>

\* the sleep returning before any time has passed
SleepOverAtOnce(t) == TRUE

\* line 102: time.sleep(seconds_to_sleep) returns when that time has passed
SleepOver(t) == now >= threads[t].next_sample_time

\* the thread wakes from the sleep of line 102
ThreadWake(t) ==
    /\ threads[t].state = "sleep"
    /\ SleepOver(t)
    /\ threads' = [ threads EXCEPT ![t].state = "check" ]
    /\ UNCHANGED << cacheVars, pureVars, otherVars, environ, app, pc, rp, local, out, prof,
                    now, hist >>

\* line 105, then the thread ends and the locals of run are gone
ThreadFinal(t) ==
    /\ threads[t].state = "final"
    /\ prof' = take_sample(prof, threads[t].sample_number, TRUE, now)
    /\ threads' = [ threads EXCEPT ![t].state = "dead",
                                   ![t].sample_number = 0,
                                   ![t].next_sample_time = 0,
                                   ![t].launch = 0 ]
    /\ UNCHANGED << cacheVars, pureVars, otherVars, environ, app, pc, rp, local, out, now, hist >>

\* time passes.  The model lets it pass only while an inspecting thread
\* runs, which is when the clock is read, and past MaxTime only when a
\* sleeping thread waits for it
Tick ==
    /\ \E t \in ThreadIds : threads[t].state # "dead"
    /\ \/ now < MaxTime
       \/ \E t \in ThreadIds :
            threads[t].state = "sleep" /\ threads[t].next_sample_time > now
    /\ now' = now + 1
    /\ UNCHANGED << cacheVars, pureVars, otherVars, environ, app, pc, rp, local, out, prof,
                    threads, hist >>

(***************************************************************************)
(* ProfilerWSGIMiddleware.__call__ (src/profiler.py 600-659) serving       *)
(* profiled requests in concurrent threads: the patching of memcache.add   *)
(* and memcache.delete around the profiled request.  mw[r].pc is the line  *)
(* that request r executes next; a patched function is the function it     *)
(* wraps with the request appended.                                        *)
(***************************************************************************)
\* most profiled requests served concurrently
MaxRequests == 2

Requests == 1 .. MaxRequests

\* alone is history: no other request was inside the middleware while
\* this one was
NewCall ==
    [ pc |-> "start", old_memcache_add |-> << >>,
      old_memcache_delete |-> << >>, outcome |-> "none", alone |-> TRUE ]

InFlight(r) == mw[r].pc \notin { "start", "done" }

\* line 641: old_memcache_add = memcache.add
MwSaveAdd(r) ==
    /\ mw[r].pc = "start"
    /\ mw' = [ q \in Requests |->
                IF q = r
                THEN [ mw[r] EXCEPT
                         !.pc = "l642",
                         !.old_memcache_add = memcache_fns.add,
                         !.alone = \A o \in Requests : ~ InFlight(o) ]
                ELSE IF InFlight(q) THEN [ mw[q] EXCEPT !.alone = FALSE ]
                     ELSE mw[q] ]
    /\ UNCHANGED << cacheVars, reqVars, pureVars, logger_handlers,
                    handler_log, memcache_fns >>

\* line 642: old_memcache_delete = memcache.delete
MwSaveDelete(r) ==
    /\ mw[r].pc = "l642"
    /\ mw' = [ mw EXCEPT ![r].pc = "l643",
                         ![r].old_memcache_delete = memcache_fns.delete ]
    /\ UNCHANGED << cacheVars, reqVars, pureVars, logger_handlers,
                    handler_log, memcache_fns >>

\* lines 643-645: memcache.add = lambda ...: ... old_memcache_add(...)
MwPatchAdd(r) ==
    /\ mw[r].pc = "l643"
    /\ memcache_fns' = [ memcache_fns EXCEPT
                           !.add = Append(mw[r].old_memcache_add, r) ]
    /\ mw' = [ mw EXCEPT ![r].pc = "l646" ]
    /\ UNCHANGED << cacheVars, reqVars, pureVars, logger_handlers,
                    handler_log >>

\* lines 646-648: memcache.delete = lambda ...: ... old_memcache_delete(...)
MwPatchDelete(r) ==
    /\ mw[r].pc = "l646"
    /\ memcache_fns' = [ memcache_fns EXCEPT
                           !.delete = Append(mw[r].old_memcache_delete, r) ]
    /\ mw' = [ mw EXCEPT ![r].pc = "try" ]
    /\ UNCHANGED << cacheVars, reqVars, pureVars, logger_handlers,
                    handler_log >>

\* lines 650-655: the profiled request runs to its end or raises; either
\* way the finally clause is entered
MwTry(r) ==
    /\ mw[r].pc = "try"
    /\ \E outcome \in { "normal", "exception" } :
         mw' = [ mw EXCEPT ![r].pc = "l658", ![r].outcome = outcome ]
    /\ UNCHANGED << cacheVars, reqVars, pureVars, logger_handlers,
                    handler_log, memcache_fns >>

\* line 658: memcache.add = old_memcache_add
MwRestoreAdd(r) ==
    /\ mw[r].pc = "l658"
    /\ memcache_fns' = [ memcache_fns EXCEPT !.add = mw[r].old_memcache_add ]
    /\ mw' = [ mw EXCEPT ![r].pc = "l659" ]
    /\ UNCHANGED << cacheVars, reqVars, pureVars, logger_handlers,
                    handler_log >>

\* line 659: memcache.delete = old_memcache_delete, and the request ends
MwRestoreDelete(r) ==
    /\ mw[r].pc = "l659"
    /\ memcache_fns' = [ memcache_fns EXCEPT
                           !.delete = mw[r].old_memcache_delete ]
    /\ mw' = [ mw EXCEPT ![r].pc = "done" ]
    /\ UNCHANGED << cacheVars, reqVars, pureVars, logger_handlers,
                    handler_log >>

(***************************************************************************)
(* A caller of sampling_profiler.Profile that calls start() and stop() in  *)
(* any order (src/sampling_profiler.py 384-405); pc is the caller's        *)
(* position: "client" outside the Profile, "stop" and "join" inside        *)
(* stop().  The inspecting threads run as above.                           *)
(***************************************************************************)
\* most calls of start() by the caller
MaxRuns == 2

\* Profile.start (lines 384-398) on a Profile that is not running
ProfileStart ==
    /\ pc = "client"
    /\ prof.inspecting_thread = None
    /\ Len(threads) < MaxRuns
    /\ threads' = StartedThreads(threads)
    /\ prof' = [ prof EXCEPT
         !.current_request_thread_id = Some("request"),
         !.inspecting_thread = Some(Len(StartedThreads(threads))) ]
    /\ UNCHANGED << cacheVars, pureVars, otherVars, environ, app, pc, rp,
                    local, out, now, hist >>

\* the caller calls stop(), whatever the Profile's state
ProfileStopCall ==
    /\ pc = "client"
    /\ pc' = "stop"
    /\ UNCHANGED << cacheVars, pureVars, otherVars, environ, app, rp, local,
                    out, prof, threads, now, hist >>

\* Profile.stop lines 402-404 and InspectingThread.stop lines 68-69: with
\* an inspecting thread the stop event is set, without one stop() returns
ProfileStop ==
    /\ pc = "stop"
    /\ IF prof.inspecting_thread # None
       THEN /\ threads' = [ threads EXCEPT
                 ![TheValue(prof.inspecting_thread)].stop_event = TRUE ]
            /\ pc' = "join"
       ELSE /\ pc' = "client"
            /\ UNCHANGED threads
    /\ UNCHANGED << cacheVars, pureVars, otherVars, environ, app, rp, local,
                    out, prof, now, hist >>

\* InspectingThread.stop line 70 and Profile.stop line 405: the join
\* returns when the thread has ended, and stop() returns
ProfileJoin ==
    /\ pc = "join"
    /\ Joined(TheValue(prof.inspecting_thread))
    /\ prof' = [ prof EXCEPT !.inspecting_thread = None ]
    /\ hist' = [ hist EXCEPT !.stopped = TRUE ]
    /\ pc' = "client"
    /\ UNCHANGED << cacheVars, pureVars, otherVars, environ, app, rp, local,
                    out, threads, now >>

(***************************************************************************)
(* Profile._call_tree and Profile.results (src/sampling_profiler.py        *)
(* 108-136, 175-220 and 267-310) on samples that hold their stack traces.  *)
(*                                                                         *)
(* A code object is [co_filename, co_name], a frame of a stack trace the   *)
(* pair <<code, lineno>>, a stack trace the sequence of its frames from    *)
(* the active frame outwards.  A string is the sequence of its pieces, a   *)
(* path separator being the piece "/".                                     *)
(***************************************************************************)
\* largest number of samples of a profile given to _call_tree and results
MaxSamples == 2

FileNames == { << "a", "/", "m.py" >>, << "b", "/", "m.py" >> }

\* the functions f of a/m.py and of b/m.py, and g of a/m.py
CodeObjects ==
    { [ co_filename |-> << "a", "/", "m.py" >>, co_name |-> "f" ],
      [ co_filename |-> << "b", "/", "m.py" >>, co_name |-> "f" ],
      [ co_filename |-> << "a", "/", "m.py" >>, co_name |-> "g" ] }

LineNos == { 1, 2 }

Frames == CodeObjects \X LineNos

\* the stack traces of ProfileSample.from_frame_and_timestamp: one frame,
\* or a frame of f called from a frame of g
StackTraces ==
    { << fr >> : fr \in Frames }
    \cup
    { << inner, outer >> :
        inner \in { fr \in Frames : fr[1].co_name = "f" },
        outer \in { fr \in Frames : fr[1].co_name = "g" } }

\* time between two samples of a run, in milliseconds
SampleGaps == { 0, MsPerInterval }

RECURSIVE TimestampOf(_, _)
TimestampOf(draw, i) ==
    IF i = 0 THEN 0 ELSE TimestampOf(draw, i - 1) + draw[i][2]

\* Profile.samples for a sequence of <<stack trace, gap>>: timestamps in
\* the order the samples were taken
SamplesOf(draw) ==
    [ i \in DOMAIN draw |->
        [ stack_trace |-> draw[i][1],
          timestamp_ms |-> TimestampOf(draw, i) ] ]

\* reversed(sample.stack_trace)
Reversed(s) == [ i \in 1 .. Len(s) |-> s[Len(s) + 1 - i] ]

\* the children dict keyed by the code object alone
ChildKeyCodeOnly(frame) == << frame[1], 0 >>

\* lines 287-295: the key of a child in "children" is the frame itself, the
\* pair of code object and current line number
ChildKey(frame) == frame

\* the path of dict keys from the root to the node of a stack trace
PathOf(stack_trace) ==
    [ i \in 1 .. Len(stack_trace) |-> ChildKey(Reversed(stack_trace)[i]) ]

\* the first sample given no time at all
SampleDeltaNoFirst(last_sample_ms, sample) ==
    IF last_sample_ms = None THEN 0
    ELSE sample.timestamp_ms - TheValue(last_sample_ms)

\* lines 298-305: dt
SampleDelta(last_sample_ms, sample) ==
    IF last_sample_ms = None THEN 1000 \div SAMPLES_PER_SECOND
    ELSE sample.timestamp_ms - TheValue(last_sample_ms)

\* lines 276-283: the tree is the map from the path of a node to the node;
\* the root is the node of the empty path
NewCallTree ==
    [ nodes |-> [ p \in { << >> } |-> [ total_time |-> 0, id |-> 1 ] ],
      next_id |-> 2, last_sample_ms |-> None, sample_ids |-> << >> ]

\* one pass of the loop of lines 284-308
AddSample(tr, sample) ==
    LET path == PathOf(sample.stack_trace)
        prefix(k) == SubSeq(path, 1, k)
        fresh == { k \in 1 .. Len(path) : prefix(k) \notin DOMAIN tr.nodes }
        before(k) == Cardinality({ j \in fresh : j < k })
        grown == [ p \in DOMAIN tr.nodes \cup { prefix(k) : k \in fresh } |->
                     IF p \in DOMAIN tr.nodes THEN tr.nodes[p]
                     ELSE [ total_time |-> 0,
                            id |-> tr.next_id + before(Len(p)) ] ]
        dt == SampleDelta(tr.last_sample_ms, sample)
    IN  [ nodes |-> [ grown EXCEPT ![path].total_time = @ + dt ],
          next_id |-> tr.next_id + Cardinality(fresh),
          last_sample_ms |-> Some(sample.timestamp_ms),
          sample_ids |-> Append(tr.sample_ids, grown[path].id) ]

RECURSIVE CallTreeOver(_, _)
CallTreeOver(samples, n) ==
    IF n = 0 THEN NewCallTree
    ELSE AddSample(CallTreeOver(samples, n - 1), samples[n])

\* Profile._call_tree(samples): the root with all nodes, and sample_ids
_call_tree(samples) ==
    LET tr == CallTreeOver(samples, Len(samples))
    IN  [ nodes |-> tr.nodes, sample_ids |-> tr.sample_ids ]

\* ProfileSample.get_frame_descriptions: "%s:%s (%s)" of each frame
FrameDescription(frame) ==
    frame[1].co_filename
        \o << ":", ToString(frame[2]), " (", frame[1].co_name, ")" >>

get_frame_descriptions(sample) ==
    [ i \in DOMAIN sample.stack_trace |->
        FrameDescription(sample.stack_trace[i]) ]

\* s.rfind(c) + 1: the place of the last c in s counted from 1, 0 without
rfind1(s, c) ==
    IF \E i \in DOMAIN s : s[i] = c
    THEN CHOOSE i \in DOMAIN s :
            s[i] = c /\ \A j \in DOMAIN s : s[j] = c => j <= i
    ELSE 0

\* util.short_method_fmt: s[s.rfind("/") + 1:]
short_method_fmt(s) == SubSeq(s, rfind1(s, "/") + 1, Len(s))

IndexOf(seq, x) == CHOOSE i \in DOMAIN seq : seq[i] = x

RECURSIVE AddFrames(_, _, _)
\* lines 187-190 for the descriptions descs[k ..] of one sample
AddFrames(frames, descs, k) ==
    IF k > Len(descs) THEN frames
    ELSE AddFrames(
            IF \E i \in DOMAIN frames : frames[i] = descs[k]
            THEN frames ELSE Append(frames, descs[k]),
            descs, k + 1)

RECURSIVE FramesOver(_, _)
\* lines 183-190: frames after the first n samples
FramesOver(samples, n) ==
    IF n = 0 THEN << >>
    ELSE AddFrames(FramesOver(samples, n - 1),
                   get_frame_descriptions(samples[n]), 1)

\* Profile.results(): the frame table, and per sample the indexes of its
\* frames into the table, counted from 0 (the timestamp and memory fields
\* of a sample are left out)
sampling_profiler_results(samples) ==
    LET frames == FramesOver(samples, Len(samples))
    IN  [ frame_names |->
            [ i \in DOMAIN frames |-> short_method_fmt(frames[i]) ],
          samples |->
            [ n \in DOMAIN samples |->
                [ stack_frames |->
                    [ i \in DOMAIN samples[n].stack_trace |->
                        IndexOf(frames,
                                get_frame_descriptions(samples[n])[i]) - 1 ] ] ],
          total_samples |-> Len(samples) ]

NoSamplingInput ==
    /\ stacks = << >>
    /\ call_tree = None
    /\ sampling_results = None

\* cpuprofile_results line 257 on the profile's samples
CallTree ==
    /\ call_tree = None
    /\ call_tree' = Some(_call_tree(stacks))
    /\ UNCHANGED << cacheVars, reqVars, otherVars, stacks, sampling_results,
                    line_profile, line_results >>

\* Profile.results() on the profile's samples
Results ==
    /\ sampling_results = None
    /\ sampling_results' = Some(sampling_profiler_results(stacks))
    /\ UNCHANGED << cacheVars, reqVars, otherVars, stacks, call_tree,
                    line_profile, line_results >>

(***************************************************************************)
(* The line-by-line profiler (src/linebyline_profiler.py).                 *)
(*                                                                         *)
(* line_profile is the linebyline Profile with the module state it reads:  *)
(* dev_server is util.dev_server, line_profiler says that the module was   *)
(* imported, line_stats is what line_prof.get_stats() returns: its timings *)
(* hold, sorted by key, one item per function added to the LineProfiler,   *)
(* with the length of the function's source block as inspect.getblock      *)
(* finds it.  Times are counted in timer units (the multiplier of line 89  *)
(* is a positive factor applied to every time).                            *)
(***************************************************************************)
\* largest number of lines of a profiled function's source block
MaxBlock == 2
\* largest number of functions marked with line_profile
MaxMarked == 2

\* the key (filename, start_lineno, func_name) of the n-th marked function
FunctionKey(n) ==
    [ filename |-> "m.py", start_lineno |-> 10 * n,
      func_name |-> IF n = 1 THEN "f" ELSE "g" ]

\* what the backend recorded on a line: nothing (-1), or a time, with 2 hits
RecordedTimes == { -1, 0, 3 }

RECURSIVE TimingsOf(_, _, _)
\* the (lineno, nhits, time) records of a block from its k-th line on,
\* lines ascending; recorded[k] is what was recorded on the k-th line
TimingsOf(recorded, start_lineno, k) ==
    IF k > Len(recorded) THEN << >>
    ELSE (IF recorded[k] = -1 THEN << >>
          ELSE << << start_lineno + k - 1, 2, recorded[k] >> >>)
         \o TimingsOf(recorded, start_lineno, k + 1)

\* what was recorded on the lines of a block, for every length of block
BlockRecords ==
    UNION { [ 1 .. len -> RecordedTimes ] : len \in 1 .. MaxBlock }

\* the timings item of the n-th function with the records of its block
TimingsItem(n, recorded) ==
    [ key |-> FunctionKey(n), block_len |-> Len(recorded),
      timings |-> TimingsOf(recorded, FunctionKey(n).start_lineno, 1) ]

\* line_prof.get_stats() when the functions 1 .. Len(blocks) were added
\* to the LineProfiler (lines 154-155)
LineStatsOf(blocks) ==
    [ timings |-> [ n \in DOMAIN blocks |-> TimingsItem(n, blocks[n]) ] ]

\* lines 101-104: line_to_timing[lineno] with its default (-1, 0); a later
\* record of a line replaces an earlier one
line_to_timing(timings, lineno) ==
    IF \E i \in DOMAIN timings : timings[i][1] = lineno
    THEN LET i == CHOOSE i \in DOMAIN timings :
                    /\ timings[i][1] = lineno
                    /\ \A j \in DOMAIN timings :
                           timings[j][1] = lineno => j <= i
         IN  << timings[i][2], timings[i][3] >>
    ELSE << -1, 0 >>

\* lines 106-110: range(start_lineno, end_lineno)
PaddedTimings(item) ==
    [ k \in 1 .. item.block_len |->
        << item.key.start_lineno + k - 1,
           line_to_timing(item.timings, item.key.start_lineno + k - 1)[1],
           line_to_timing(item.timings, item.key.start_lineno + k - 1)[2] >> ]

RECURSIVE SumTimes(_, _)
SumTimes(padded, n) ==
    IF n = 0 THEN 0 ELSE SumTimes(padded, n - 1) + padded[n][3]

\* lines 114-139 for one function.  perc_time is the pair of dividend and
\* divisor of line 127; the division raises ZeroDivisionError when the
\* divisor, the function's total time, is 0
FunctionResult(item) ==
    LET padded == PaddedTimings(item)
        total == SumTimes(padded, Len(padded))
    IN  IF total = 0
        THEN [ kind |-> "raise", value |-> << >> ]
        ELSE [ kind |-> "return",
               value |->
                 [ filename |-> item.key.filename,
                   start_lineno |-> item.key.start_lineno,
                   func_name |-> item.key.func_name,
                   total_time_ms |-> total,
                   timings |->
                     [ k \in DOMAIN padded |->
                         [ lineno |-> padded[k][1],
                           numhits |-> padded[k][2],
                           time_ms |-> padded[k][3],
                           perc_time |-> << 100 * padded[k][3], total >> ] ]
                 ] ]

RECURSIVE ProcessFrom(_, _, _)
\* the loop of lines 91-139 from the k-th item on, after the results done
ProcessFrom(items, k, done) ==
    IF k > Len(items) THEN [ kind |-> "return", value |-> done ]
    ELSE IF items[k].timings = << >> THEN ProcessFrom(items, k + 1, done)
    ELSE IF FunctionResult(items[k]).kind = "raise"
         THEN [ kind |-> "raise", value |-> << >> ]
         ELSE ProcessFrom(items, k + 1,
                          Append(done, FunctionResult(items[k]).value))

\* _process_line_stats(line_stats), line_stats being a LineStats object
_process_line_stats(line_stats) == ProcessFrom(line_stats.timings, 1, << >>)

\* results() with no message in any condition
ErrMsgNone(p) == ""

\* lines 158-168: err_msg
ErrMsg(p) ==
    IF ~ p.dev_server
    THEN "The line-by-line profiler can only be used in dev."
    ELSE IF ~ p.line_profiler
         THEN "Could not load the line_profiler module."
         ELSE ""

\* linebyline Profile.results(): self.line_prof is set exactly when
\* line_profiler was imported (lines 149-152)
linebyline_profiler_results(p) ==
    LET calls == IF p.line_profiler /\ p.num_functions_marked # 0
                 THEN _process_line_stats(p.line_stats)
                 ELSE [ kind |-> "return", value |-> << >> ]
    IN  IF calls.kind = "raise"
        THEN [ kind |-> "raise", err_msg |-> "", num_functions_marked |-> 0,
               calls |-> << >> ]
        ELSE [ kind |-> "return", err_msg |-> ErrMsg(p),
               num_functions_marked |-> p.num_functions_marked,
               calls |-> calls.value ]

\* a linebyline Profile when the request ends: line_profiler is imported
\* only on the dev server (lines 18-41), and the backend holds timings for
\* the functions that were marked when the Profile was made
IsLineProfile(p) ==
    \E dev_server \in BOOLEAN, imported \in BOOLEAN :
    \E marked \in 0 .. MaxMarked :
        /\ imported => dev_server
        /\ \E blocks \in [ 1 .. (IF imported THEN marked ELSE 0)
                              -> BlockRecords ] :
              p = [ dev_server |-> dev_server, line_profiler |-> imported,
                    num_functions_marked |-> marked,
                    line_stats |-> LineStatsOf(blocks) ]

NoLineProfile ==
    [ dev_server |-> FALSE, line_profiler |-> FALSE,
      num_functions_marked |-> 0, line_stats |-> [ timings |-> << >> ] ]

NoLineInput ==
    /\ line_profile = NoLineProfile
    /\ line_results = None

\* the request's results are collected: linebyline Profile.results()
LineResults ==
    /\ line_results = None
    /\ line_results' = Some(linebyline_profiler_results(line_profile))
    /\ UNCHANGED << cacheVars, reqVars, otherVars, stacks, call_tree, sampling_results,
                    line_profile >>

(***************************************************************************)
(* The specifications.                                                     *)
(***************************************************************************)
NoPureInput == NoSamplingInput /\ NoLineInput

InitCache ==
    CacheEmpty /\ RequestAt(NoEnviron, NoApp) /\ NoPureInput /\ NoOther

NextCache ==
    \/ Store
    \/ Evict
    \/ \E g \in Getters : GetStart(g)
    \/ \E g \in Getters : GetRead(g)
    \/ \E g \in Getters : GetReturn(g)

SpecCache == InitCache /\ [][NextCache]_vars

\* every pair of header and cookie
ModeEnvirons ==
    LET Signals == { None } \cup { Some(v) : v \in SignalValues }
    IN  [ header : Signals, cookie : Signals ]

InitMode ==
    /\ CacheEmpty
    /\ \E env \in ModeEnvirons : RequestAt(env, NoApp)
    /\ NoPureInput
    /\ NoOther

NextMode == MiddlewareCall

SpecMode == InitMode /\ [][NextMode]_vars

Init ==
    /\ CacheEmpty
    /\ \E env \in RequestEnvirons : \E a \in Apps : RequestAt(env, a)
    /\ NoPureInput
    /\ NoOther

Next ==
    \/ MiddlewareCall
    \/ PsrBegin
    \/ SimpleCall
    \/ RunEnter
    \/ RunFxn
    \/ RunExit
    \/ RunJoin
    \/ ResumeGen
    \/ Iter
    \/ ResumeIter
    \/ Finish
    \/ \E t \in ThreadIds : ThreadRunBegin(t)
    \/ \E t \in ThreadIds : ThreadCheck(t)
    \/ \E t \in ThreadIds : ThreadTake(t)
    \/ \E t \in ThreadIds : ThreadPace(t)
    \/ \E t \in ThreadIds : ThreadWake(t)
    \/ \E t \in ThreadIds : ThreadFinal(t)
    \/ Tick

Spec == Init /\ [][Next]_vars

\* every profile of at most MaxSamples samples
InitSampling ==
    /\ CacheEmpty
    /\ RequestAt(NoEnviron, NoApp)
    /\ \E n \in 0 .. MaxSamples :
         \E draw \in [ 1 .. n -> StackTraces \X SampleGaps ] :
             stacks = SamplesOf(draw)
    /\ call_tree = None
    /\ sampling_results = None
    /\ NoLineInput
    /\ NoOther

NextSampling == CallTree \/ Results

SpecSampling == InitSampling /\ [][NextSampling]_vars

\* every linebyline Profile
InitLines ==
    /\ CacheEmpty
    /\ RequestAt(NoEnviron, NoApp)
    /\ NoSamplingInput
    /\ IsLineProfile(line_profile)
    /\ line_results = None
    /\ NoOther

NextLines == LineResults

SpecLines == InitLines /\ [][NextLines]_vars

\* an empty cache, one profiled request that stores its bundle, and the
\* handlers that serve retrievals of stored profiles concurrently
InitHandler ==
    /\ memcache = << >>
    /\ stores = 0
    /\ good = [ id \in RequestIds |-> None ]
    /\ prior = [ id \in RequestIds |-> None ]
    /\ getter = [ h \in Handlers |-> IdleGetter ]
    /\ store_log = NoStoreLog
    /\ RequestAt(NoEnviron, NoApp)
    /\ NoPureInput
    /\ NoOther

NextHandler ==
    \/ StoreProfile
    \/ \E h \in Handlers : HandlerGet(h)
    \/ \E h \in Handlers : GetRead(h)
    \/ \E h \in Handlers : HandlerRespond(h)

SpecHandler == InitHandler /\ [][NextHandler]_vars

\* the profiled requests that the middleware serves in concurrent threads,
\* none begun, memcache.add and memcache.delete as the SDK defines them
InitMiddleware ==
    /\ CacheEmpty
    /\ RequestAt(NoEnviron, NoApp)
    /\ NoPureInput
    /\ logger_handlers = 0
    /\ handler_log = NoHandlerLog
    /\ memcache_fns = OriginalFns
    /\ mw = [ r \in Requests |-> NewCall ]

NextMiddleware ==
    \/ \E r \in Requests : MwSaveAdd(r)
    \/ \E r \in Requests : MwSaveDelete(r)
    \/ \E r \in Requests : MwPatchAdd(r)
    \/ \E r \in Requests : MwPatchDelete(r)
    \/ \E r \in Requests : MwTry(r)
    \/ \E r \in Requests : MwRestoreAdd(r)
    \/ \E r \in Requests : MwRestoreDelete(r)

SpecMiddleware == InitMiddleware /\ [][NextMiddleware]_vars

\* a Profile, with or without memory sampling, in the hands of a caller of
\* start() and stop(); the scheduler is fair to the inspecting threads, to
\* the clock and to a call of stop() that has begun
InitStop ==
    /\ CacheEmpty
    /\ environ = NoEnviron
    /\ app = NoApp
    /\ pc = "client"
    /\ rp = NewRequestProfiler("", RPC_ONLY)
    /\ local = NoLocal
    /\ out = << >>
    /\ \E rate \in { 0, MemorySampleRate } : prof = NewProfile(rate, 0)
    /\ threads = << >>
    /\ now = 0
    /\ hist = NoHist
    /\ NoPureInput
    /\ NoOther

NextStop ==
    \/ ProfileStart
    \/ ProfileStopCall
    \/ ProfileStop
    \/ ProfileJoin
    \/ \E t \in ThreadIds : ThreadRunBegin(t)
    \/ \E t \in ThreadIds : ThreadCheck(t)
    \/ \E t \in ThreadIds : ThreadTake(t)
    \/ \E t \in ThreadIds : ThreadPace(t)
    \/ \E t \in ThreadIds : ThreadWake(t)
    \/ \E t \in ThreadIds : ThreadFinal(t)
    \/ Tick

FairStop ==
    /\ WF_vars(ProfileStop)
    /\ WF_vars(ProfileJoin)
    /\ WF_vars(\E t \in ThreadIds : ThreadRunBegin(t))
    /\ WF_vars(\E t \in ThreadIds : ThreadCheck(t))
    /\ WF_vars(\E t \in ThreadIds : ThreadTake(t))
    /\ WF_vars(\E t \in ThreadIds : ThreadPace(t))
    /\ WF_vars(\E t \in ThreadIds : ThreadWake(t))
    /\ WF_vars(\E t \in ThreadIds : ThreadFinal(t))
    /\ WF_vars(Tick)

SpecStop == InitStop /\ [][NextStop]_vars /\ FairStop

(***************************************************************************)
(* C1  Chunking round trip: a get that reads a request id whose last store *)
(* wrote every chunk, with no eviction and no other store on that id since *)
(* that store and during the get, returns the object stored.               *)
(***************************************************************************)
C1_RoundTrip ==
    \A g \in Getters :
        (getter[g].pc = "got" /\ getter[g].expect # None)
            => getter[g].result =
                 [ kind |-> "stats", value |-> getter[g].expect ]

\* a round trip of an object whose compressed length is a multiple of the
\* chunk size and more than one chunk
C1_Witness ==
    \E g \in Getters :
        /\ getter[g].pc = "got"
        /\ getter[g].expect # None
        /\ TheValue(getter[g].expect).size = 2 * _MEMCACHE_CHUNKSIZE
        /\ getter[g].result.kind = "stats"

(***************************************************************************)
(* C2  A chunk sequence that does not decompress is a cache miss: get      *)
(* never raises to its caller.                                             *)
(***************************************************************************)
C2_GetNeverRaises ==
    \A g \in Getters :
        getter[g].pc = "got" => getter[g].result.kind # "raise"

(***************************************************************************)
(* C3  Last writer wins: after two successive fully successful stores      *)
(* under one request id, a get returns the object of the second store.     *)
(***************************************************************************)
C3_LastWriterWins ==
    \A g \in Getters :
        (/\ getter[g].pc = "got"
         /\ getter[g].expect # None
         /\ getter[g].expectPrior # None)
            => /\ getter[g].result.kind = "stats"
               /\ getter[g].result.value = getter[g].expect
               /\ getter[g].result.value # getter[g].expectPrior

\* the second object fills exactly one chunk, the first one needed two: the
\* get reads the stale second chunk of the first store after the new chunk
C3_Witness ==
    \E g \in Getters :
        /\ getter[g].pc = "got"
        /\ getter[g].expect # None
        /\ getter[g].expectPrior # None
        /\ TheValue(getter[g].expect).size = _MEMCACHE_CHUNKSIZE
        /\ TheValue(getter[g].expectPrior).size > _MEMCACHE_CHUNKSIZE
        /\ Len(getter[g].chunks) > _MEMCACHE_CHUNKSIZE
        /\ getter[g].result.kind = "stats"

(***************************************************************************)
(* C4  Stop-join guarantee: while the profile has no inspecting thread,    *)
(* that is before the first start() and from the return of stop() to the   *)
(* next start(), every InspectingThread has ended and no step changes      *)
(* samples or memory_samples.                                              *)
(***************************************************************************)
C4_StopJoin ==
    [][ prof.inspecting_thread = None =>
          /\ \A t \in ThreadIds : threads[t].state = "dead"
          /\ prof'.samples = prof.samples
          /\ prof'.memory_samples = prof.memory_samples ]_vars

\* stop() has returned with samples and a memory reading taken, and the
\* request thread goes on: the generator is suspended at its yield
C4_Witness ==
    /\ hist.stopped
    /\ prof.inspecting_thread = None
    /\ pc = "yield_gen"
    /\ Len(prof.samples) > 1
    /\ prof.memory_samples # << >>

(***************************************************************************)
(* C5  As claimed: Stopped is terminal.  Once stop() has returned on a     *)
(* sampling Profile, the profile has no inspecting thread again and no     *)
(* sample is appended to it.                                               *)
(***************************************************************************)
C5_StoppedIsTerminal ==
    [][ hist.stopped =>
          /\ prof'.inspecting_thread = None
          /\ prof'.samples = prof.samples ]_vars

(***************************************************************************)
(* C5 amended  Stopped is terminal for an InspectingThread, not for the    *)
(* Profile: a thread that has ended never changes again, and a sample is   *)
(* appended only by a step of the thread that is the profile's current     *)
(* inspecting thread.                                                      *)
(***************************************************************************)
C5_ThreadStoppedIsTerminal ==
    [][ /\ \A t \in ThreadIds :
             threads[t].state = "dead" => threads'[t] = threads[t]
        /\ prof'.samples # prof.samples =>
             /\ prof.inspecting_thread # None
             /\ threads[TheValue(prof.inspecting_thread)].state
                   \in { "take", "final" }
             /\ threads'[TheValue(prof.inspecting_thread)].state
                   \in { "pace", "dead" } ]_vars

\* the profile runs again after a stop: its second thread samples while
\* the first one has ended
C5_Witness ==
    /\ hist.stopped
    /\ Len(threads) > 1
    /\ threads[1].state = "dead"
    /\ prof.inspecting_thread = Some(Len(threads))
    /\ threads[Len(threads)].state = "pace"

(***************************************************************************)
(* C6  Response transparency: what profile_start_response has yielded is   *)
(* always a prefix of the application's values; when it ends it has        *)
(* yielded all of them, and it ends with an exception exactly when the     *)
(* application raises.                                                     *)
(***************************************************************************)
C6_Transparent ==
    /\ Len(out) <= app.n
    /\ out = SubSeq(AppValues(app), 1, Len(out))
    /\ pc \in { "finish", "done", "raised" } => out = AppValues(app)
    /\ pc = "raised" => AppRaises(app)
    /\ pc \in { "finish", "done" } => ~ AppRaises(app)

\* a generator's values, more than one, have all been yielded in a mode
\* that wraps the application twice (RPC interceptor and sampling)
C6_Witness ==
    /\ pc = "done"
    /\ rp.mode = RPC_AND_CPU_SAMPLING
    /\ app.returns = "generator"
    /\ Len(out) > 1
    /\ out = AppValues(app)

(***************************************************************************)
(* C7  Streamed responses are profiled pull by pull: in a mode other than  *)
(* SIMPLE, while the request thread runs the code of a handler that        *)
(* returns a generator (its call and every pull, the last included) it is  *)
(* inside the run wrapper of the mode's strategy, with the sampling        *)
(* strategy the inspecting thread is running and not told to stop, and     *)
(* while profile_start_response is suspended at the yield of line 535      *)
(* every inspecting thread has ended.                                      *)
(***************************************************************************)
InAppCode == pc \in { "simple_call", "run_fxn", "iter" }

SamplerRunning ==
    /\ prof.inspecting_thread # None
    /\ threads[TheValue(prof.inspecting_thread)].state # "dead"
    /\ ~ threads[TheValue(prof.inspecting_thread)].stop_event

C7_StreamProfiled ==
    /\ (InAppCode /\ rp.mode # SIMPLE /\ local.app.returns = "generator")
         => /\ local.in_wrapper # "none"
            /\ rp.sampling_prof =>
                 local.in_wrapper = "sampling" /\ SamplerRunning
            /\ rp.linebyline_prof => local.in_wrapper = "linebyline"
            /\ rp.instrumented_prof => local.in_wrapper = "instrumented"
    /\ (pc \in { "yield_gen", "yield_iter" } /\ rp.mode # SIMPLE
           /\ local.app.returns = "generator")
         => /\ prof.inspecting_thread = None
            /\ \A t \in ThreadIds : threads[t].state = "dead"

\* the pull that ends a stream of at least one value runs under the
\* sampler, the third inspecting thread of the request or a later one
C7_Witness ==
    /\ pc = "run_fxn"
    /\ local.fxn = "next"
    /\ local.app.n > 0
    /\ local.pos = local.app.n
    /\ rp.sampling_prof
    /\ SamplerRunning
    /\ Len(threads) > 2

(***************************************************************************)
(* C8  Mode derivation: the mode of the request is the header's value if   *)
(* the header is present, else the cookie's value, when that value is one  *)
(* of the ten modes, and RPC_ONLY otherwise.                               *)
(***************************************************************************)
C8_ModeDerivation ==
    pc # "mw" =>
        /\ rp.mode \in Modes
        /\ (environ.header # None /\ TheValue(environ.header) \in Modes)
             => rp.mode = TheValue(environ.header)
        /\ (environ.header # None /\ TheValue(environ.header) \notin Modes)
             => rp.mode = RPC_ONLY
        /\ (environ.header = None /\ environ.cookie # None
              /\ TheValue(environ.cookie) \in Modes)
             => rp.mode = TheValue(environ.cookie)
        /\ (environ.header = None /\ environ.cookie # None
              /\ TheValue(environ.cookie) \notin Modes)
             => rp.mode = RPC_ONLY
        /\ (environ.header = None /\ environ.cookie = None)
             => rp.mode = RPC_ONLY

\* an unrecognized header hides a valid cookie
C8_Witness ==
    /\ pc # "mw"
    /\ environ.header = Some("bogus")
    /\ environ.cookie = Some(CPU_SAMPLING)
    /\ rp.mode = RPC_ONLY

(***************************************************************************)
(* C9  One CPU strategy at a time: no mode enables two of sampling,        *)
(* instrumented and line-by-line profiling, a request never has two of     *)
(* sampling_prof, instrumented_prof and linebyline_prof set, and none of   *)
(* them in the modes SIMPLE and RPC_ONLY.                                  *)
(***************************************************************************)
C9_OneStrategy ==
    /\ \A m \in Modes :
         /\ ~ (is_sampling_enabled(m) /\ is_instrumented_enabled(m))
         /\ ~ (is_sampling_enabled(m) /\ is_linebyline_enabled(m))
         /\ ~ (is_instrumented_enabled(m) /\ is_linebyline_enabled(m))
    /\ ~ (rp.sampling_prof /\ rp.instrumented_prof)
    /\ ~ (rp.sampling_prof /\ rp.linebyline_prof)
    /\ ~ (rp.instrumented_prof /\ rp.linebyline_prof)
    /\ rp.mode \in { SIMPLE, RPC_ONLY } =>
         ~ (rp.sampling_prof \/ rp.instrumented_prof \/ rp.linebyline_prof)

\* a request in an instrumented mode has served its response
C9_Witness ==
    /\ pc = "done"
    /\ rp.mode = RPC_AND_CPU_INSTRUMENTED
    /\ rp.instrumented_prof
    /\ ~ rp.sampling_prof
    /\ ~ rp.linebyline_prof

(***************************************************************************)
(* C10  RPC profiling is independent of the CPU strategy: once the         *)
(* request has set up its profilers, is_rpc_enabled holds of its mode, and *)
(* appstats_prof is set, exactly when the mode is RPC_ONLY or one of the   *)
(* RPC_AND_CPU_* modes.                                                    *)
(***************************************************************************)
C10_RpcIndependent ==
    pc \notin { "mw", "psr_begin" } =>
        /\ is_rpc_enabled(rp.mode) <=> rp.mode \in RpcNamedModes
        /\ rp.appstats_prof <=> rp.mode \in RpcNamedModes

(***************************************************************************)
(* C11  As claimed: the call tree is keyed by function and not by line.    *)
(* Two samples whose stack traces name the same code objects along the     *)
(* same call path, whatever the line numbers of their frames, end in the   *)
(* same node of the tree built by _call_tree.                              *)
(***************************************************************************)
FunctionsOf(stack_trace) ==
    [ i \in DOMAIN stack_trace |-> stack_trace[i][1] ]

RECURSIVE DeltaSum(_, _)
\* the sum of the time deltas of the samples of the index set among 1 .. n
DeltaSum(indexes, n) ==
    IF n = 0 THEN 0
    ELSE DeltaSum(indexes, n - 1)
         + (IF n \notin indexes THEN 0
            ELSE IF n = 1 THEN MsPerInterval
            ELSE stacks[n].timestamp_ms - stacks[n - 1].timestamp_ms)

RECURSIVE TotalTime(_, _)
\* the sum of total_time over the nodes of the given paths
TotalTime(nodes, paths) ==
    IF paths = { } THEN 0
    ELSE LET p == CHOOSE q \in paths : TRUE
         IN  nodes[p].total_time + TotalTime(nodes, paths \ { p })

C12_TimeConserved ==
    (call_tree # None /\ stacks # << >>) =>
        LET tr == TheValue(call_tree)
        IN  /\ \A p \in DOMAIN tr.nodes :
                  tr.nodes[p].total_time
                    = DeltaSum({ i \in DOMAIN stacks :
                                   Reversed(stacks[i].stack_trace) = p },
                               Len(stacks))
            /\ TotalTime(tr.nodes, DOMAIN tr.nodes)
                  = 1000 \div SAMPLES_PER_SECOND
                    + stacks[Len(stacks)].timestamp_ms
                    - stacks[1].timestamp_ms

\* two samples one interval apart in two functions called from the same
\* frame of g: the node of g is in the tree and holds no time
C12_Witness ==
    /\ call_tree # None
    /\ Len(stacks) = 2
    /\ Len(stacks[1].stack_trace) = 2
    /\ Len(stacks[2].stack_trace) = 2
    /\ stacks[1].stack_trace[2] = stacks[2].stack_trace[2]
    /\ stacks[1].stack_trace[1][1] # stacks[2].stack_trace[1][1]
    /\ stacks[2].timestamp_ms = stacks[1].timestamp_ms + MsPerInterval
    /\ TheValue(call_tree).nodes[<< stacks[1].stack_trace[2] >>].total_time
          = 0
    /\ TotalTime(TheValue(call_tree).nodes,
                 DOMAIN TheValue(call_tree).nodes) = 2 * MsPerInterval

(***************************************************************************)
(* C13  The frame table is deduplicated: frame_names of the sampling       *)
(* results holds no two equal strings, every name in it is the name of a   *)
(* sampled frame, and the names stand in the order in which they first     *)
(* appear in the samples.                                                  *)
(***************************************************************************)
RECURSIVE ShortNamesOver(_, _)
\* the short names of the frames of the first n samples, in sample order
ShortNamesOver(samples, n) ==
    IF n = 0 THEN << >>
    ELSE ShortNamesOver(samples, n - 1)
         \o [ i \in DOMAIN samples[n].stack_trace |->
                short_method_fmt(get_frame_descriptions(samples[n])[i]) ]

FirstPlace(seq, x) ==
    CHOOSE i \in DOMAIN seq :
        seq[i] = x /\ \A j \in DOMAIN seq : seq[j] = x => i <= j

C13_FrameNamesDistinct ==
    sampling_results # None =>
        LET names == TheValue(sampling_results).frame_names
            sampled == ShortNamesOver(stacks, Len(stacks))
        IN  /\ \A i, j \in DOMAIN names : names[i] = names[j] => i = j
            /\ \A i \in DOMAIN names :
                  \E k \in DOMAIN sampled : sampled[k] = names[i]
            /\ \A i, j \in DOMAIN names :
                  i < j => FirstPlace(sampled, names[i])
                             <= FirstPlace(sampled, names[j])

(***************************************************************************)
(* C14  Line table contiguity: for every function with at least one timing *)
(* record, the results hold a table of that function with one entry per    *)
(* line of its source block, the lines start, start + 1, ... in order; the *)
(* entry of a line with a record has the recorded hits and time, the entry *)
(* of a line without record has numhits -1 and time 0.                     *)
(***************************************************************************)
RecordOf(item, lineno) ==
    { i \in DOMAIN item.timings : item.timings[i][1] = lineno }

C14_LineTableContiguous ==
    (/\ line_results # None
     /\ line_profile.line_profiler
     /\ line_profile.num_functions_marked # 0) =>
        \A n \in DOMAIN line_profile.line_stats.timings :
            LET item == line_profile.line_stats.timings[n]
                res == TheValue(line_results)
            IN  item.timings # << >> =>
                  /\ res.kind = "return"
                  /\ \E c \in DOMAIN res.calls :
                        /\ res.calls[c].start_lineno = item.key.start_lineno
                        /\ res.calls[c].func_name = item.key.func_name
                        /\ Len(res.calls[c].timings) = item.block_len
                        /\ \A k \in 1 .. item.block_len :
                              LET e == res.calls[c].timings[k]
                                  lineno == item.key.start_lineno + k - 1
                              IN  /\ e.lineno = lineno
                                  /\ RecordOf(item, lineno) = { } =>
                                        e.numhits = -1 /\ e.time_ms = 0
                                  /\ \A i \in RecordOf(item, lineno) :
                                        /\ e.numhits = item.timings[i][2]
                                        /\ e.time_ms = item.timings[i][3]

(***************************************************************************)
(* C15  As claimed: degraded line profiling.  When the backend is          *)
(* unavailable, or available with no function marked, results() returns    *)
(* without raising a non-empty message and an empty calls list.            *)
(***************************************************************************)
BackendUnavailable == ~ line_profile.line_profiler

NothingMarked ==
    line_profile.line_profiler /\ line_profile.num_functions_marked = 0

C15_DegradedMessage ==
    (line_results # None /\ (BackendUnavailable \/ NothingMarked)) =>
        /\ TheValue(line_results).kind = "return"
        /\ TheValue(line_results).err_msg # ""
        /\ TheValue(line_results).calls = << >>

(***************************************************************************)
(* C15 amended  In both degraded conditions results() returns without      *)
(* raising and with an empty calls list.  With the backend unavailable     *)
(* err_msg is a non-empty message; with the backend available and no       *)
(* function marked err_msg is the empty string and the condition is        *)
(* reported by num_functions_marked = 0.                                   *)
(***************************************************************************)
C15_DegradedResults ==
    (line_results # None /\ (BackendUnavailable \/ NothingMarked)) =>
        /\ TheValue(line_results).kind = "return"
        /\ TheValue(line_results).calls = << >>
        /\ TheValue(line_results).num_functions_marked
              = line_profile.num_functions_marked
        /\ BackendUnavailable => TheValue(line_results).err_msg # ""
        /\ NothingMarked =>
              /\ TheValue(line_results).err_msg = ""
              /\ TheValue(line_results).num_functions_marked = 0

\* results() of a Profile on the dev server that could not import
\* line_profiler although functions are marked
C15_Witness ==
    /\ line_results # None
    /\ line_profile.dev_server
    /\ BackendUnavailable
    /\ line_profile.num_functions_marked > 0
    /\ TheValue(line_results).err_msg # ""
    /\ TheValue(line_results).calls = << >>

(***************************************************************************)
(* C16  End-of-request memory reading.  With memory sampling enabled the   *)
(* take_sample that follows the loop records a reading at its timestamp    *)
(* whatever its sample number, so that between a stop() and the next       *)
(* start() memory_samples holds a reading at the last sample's timestamp;  *)
(* a take_sample of the loop records a reading exactly when its sample     *)
(* number is a multiple of memory_sample_every; with memory sampling       *)
(* disabled memory_samples stays empty.                                    *)
(***************************************************************************)
HasReading(memory_samples, timestamp_ms) ==
    \E j \in DOMAIN memory_samples : memory_samples[j] = timestamp_ms

NowMs == (now - prof.start_time) * MsPerInterval

\* what take_sample does to memory_samples, for every sample number up to
\* twice memory_sample_every
MemoryByNumber ==
    \A n \in 0 .. 2 * prof.memory_sample_every : \A force \in BOOLEAN :
        LET after == take_sample(prof, n, force, now).memory_samples
        IN  IF prof.memory_sample_every # 0
               /\ (force \/ n % prof.memory_sample_every = 0)
            THEN HasReading(after, NowMs)
            ELSE after = prof.memory_samples

ReadingAtEnd ==
    /\ prof.memory_sample_every = 0 => prof.memory_samples = << >>
    /\ (/\ prof.memory_sample_every # 0
        /\ hist.stopped
        /\ prof.inspecting_thread = None)
         => /\ prof.samples # << >>
            /\ HasReading(prof.memory_samples,
                          prof.samples[Len(prof.samples)].timestamp_ms)

C16_EndOfRequestMemory ==
    [][ /\ MemoryByNumber
        /\ ReadingAtEnd
        /\ ReadingAtEnd'
        /\ \A t \in ThreadIds :
             /\ (threads[t].state = "final" /\ threads'[t].state = "dead")
                  => IF prof.memory_sample_every # 0
                     THEN HasReading(prof'.memory_samples, NowMs)
                     ELSE prof'.memory_samples = << >>
             /\ (threads[t].state = "take" /\ threads'[t].state = "pace")
                  => IF prof.memory_sample_every # 0
                        /\ threads[t].sample_number
                             % prof.memory_sample_every = 0
                     THEN HasReading(prof'.memory_samples, NowMs)
                     ELSE prof'.memory_samples = prof.memory_samples ]_vars

\* one run of three samples at three times: the loop's samples 0 and 1,
\* of which only sample 0 recorded memory, and the final sample, number 2,
\* which recorded memory
C16_Witness ==
    /\ prof.memory_sample_every > 2
    /\ Len(threads) = 1
    /\ threads[1].state = "dead"
    /\ prof.inspecting_thread = None
    /\ Len(prof.samples) = 3
    /\ prof.samples[1].timestamp_ms < prof.samples[2].timestamp_ms
    /\ prof.samples[2].timestamp_ms < prof.samples[3].timestamp_ms
    /\ prof.memory_samples = << prof.samples[1].timestamp_ms,
                                prof.samples[3].timestamp_ms >>

(***************************************************************************)
(* C17  A get of a request id under which nothing was ever stored returns  *)
(* None after one read, and a first chunk of length 0 in the backing store *)
(* would be read and answered in the same way.                             *)
(***************************************************************************)
\* the backing store holding a chunk of length 0 under the key
WithEmptyChunk(cache, key) ==
    [ k \in DOMAIN cache \cup { key } |->
        IF k = key THEN << >> ELSE cache[k] ]

C17_NeverStoredNotFound ==
    /\ \A g \in Getters :
          (/\ getter[g].pc = "got"
           /\ ~ IsFalsy(getter[g].arg)
           /\ getter[g].request_id \notin store_log.ever)
             => /\ getter[g].result = [ kind |-> "None", value |-> None ]
                /\ getter[g].lens = << 0 >>
    /\ \A id \in RequestIds \ store_log.ever :
          LET key == memcache_key(id, 0)
              chunk == MemcacheGetOrEmpty(WithEmptyChunk(memcache, key), key)
          IN  /\ chunk = MemcacheGetOrEmpty(memcache, key)
              /\ ~ MoreChunks(chunk)
              /\ GetResult(chunk) = [ kind |-> "None", value |-> None ]

\* a get of "b" has returned, and only "a" was ever stored
C17_Witness ==
    \E g \in Getters :
        /\ getter[g].pc = "got"
        /\ getter[g].arg = Some("b")
        /\ store_log.ever = { "a" }
        /\ memcache # << >>
        /\ getter[g].result.kind = "None"

(***************************************************************************)
(* C18  A get with an empty or absent request id returns None without      *)
(* reading the backing store, and the call leaves the backing store as it  *)
(* was.                                                                    *)
(***************************************************************************)
C18_NoIdNoRead ==
    [][ \A g \in Getters :
          (getter'[g].pc = "got" /\ IsFalsy(getter'[g].arg)) =>
              /\ getter'[g].result = [ kind |-> "None", value |-> None ]
              /\ getter'[g].keys_read = << >>
              /\ getter[g].pc = "idle" => memcache' = memcache ]_vars

\* a get with the empty string has returned while the store holds chunks
C18_Witness ==
    \E g \in Getters :
        /\ getter[g].pc = "got"
        /\ getter[g].arg = Some("")
        /\ getter[g].keys_read = << >>
        /\ memcache # << >>

(***************************************************************************)
(* C19  store reports a partial write failure as a flag: a call returns    *)
(* True exactly when set_multi reported no failed key and False otherwise; *)
(* after the call every chunk whose write did not fail is in the backing   *)
(* store, and every key whose write failed holds what it held before.      *)
(***************************************************************************)
C19_StoreFlag ==
    [][ stores' # stores =>
          LET st == TheValue(store_log'.self)
              failed == store_log'.retval
          IN  /\ store_log'.returned \in { Some(TRUE), Some(FALSE) }
              /\ store_log'.returned = Some(TRUE) <=> failed = { }
              /\ \A k \in DOMAIN SetMap(st) \ failed :
                    /\ k \in DOMAIN memcache'
                    /\ memcache'[k] = SetMap(st)[k]
              /\ \A k \in failed :
                    /\ k \in DOMAIN memcache' <=> k \in DOMAIN memcache
                    /\ k \in DOMAIN memcache => memcache'[k] = memcache[k]
        ]_vars

\* the last store returned False: the write of its second chunk failed,
\* and its first chunk is in the backing store
C19_Witness ==
    /\ store_log.returned = Some(FALSE)
    /\ LET st == TheValue(store_log.self)
       IN  /\ store_log.retval
                = { memcache_key(st.request_id, _MEMCACHE_CHUNKSIZE) }
           /\ memcache_key(st.request_id, 0) \in DOMAIN memcache
           /\ memcache[memcache_key(st.request_id, 0)]
                = Slice(Compress(st), 0)

(***************************************************************************)
(* C20  Chunk continuation protocol.  The keys of the backing store are    *)
(* the keys of byte offsets 0, B, 2B, ... (B = _MEMCACHE_CHUNKSIZE); a get *)
(* reads these keys in this order from the first, reads a further key only *)
(* after a chunk of length B, and ends with the first chunk shorter than   *)
(* B, a missing chunk counting as length 0.  A get during which the entry  *)
(* was neither stored nor evicted has made one read more than the entry    *)
(* has leading chunks of length B.                                         *)
(***************************************************************************)
\* the number of leading chunks of full size under the request id
LeadingFull(cache, request_id) ==
    CHOOSE n \in 0 .. Cardinality(DOMAIN cache) :
        /\ \A j \in 0 .. n - 1 :
              Len(MemcacheGetOrEmpty(cache,
                    memcache_key(request_id, j * _MEMCACHE_CHUNKSIZE)))
                = _MEMCACHE_CHUNKSIZE
        /\ Len(MemcacheGetOrEmpty(cache,
                  memcache_key(request_id, n * _MEMCACHE_CHUNKSIZE)))
              < _MEMCACHE_CHUNKSIZE

C20_ChunkContinuation ==
    /\ \A k \in DOMAIN memcache :
          /\ k[2] % _MEMCACHE_CHUNKSIZE = 0
          /\ Len(memcache[k]) \in 1 .. _MEMCACHE_CHUNKSIZE
    /\ \A g \in Getters :
          LET gt == getter[g]
              reads == Len(gt.keys_read)
          IN  (gt.pc # "idle" /\ ~ IsFalsy(gt.arg)) =>
                /\ Len(gt.lens) = reads
                /\ \A j \in 1 .. reads :
                      gt.keys_read[j] = (j - 1) * _MEMCACHE_CHUNKSIZE
                /\ \A j \in 1 .. reads - 1 :
                      gt.lens[j] = _MEMCACHE_CHUNKSIZE
                /\ gt.pc = "reading" =>
                      /\ gt.i = reads * _MEMCACHE_CHUNKSIZE
                      /\ reads > 0 => gt.lens[reads] = _MEMCACHE_CHUNKSIZE
                /\ gt.pc = "got" =>
                      /\ reads > 0
                      /\ gt.lens[reads] < _MEMCACHE_CHUNKSIZE
                      /\ gt.steady =>
                            reads = 1 + LeadingFull(memcache, gt.request_id)

\* a get of an entry of two full chunks: the reads at offsets 0 and B gave
\* full chunks, the read at offset 2B found nothing
C20_Witness ==
    \E g \in Getters :
        /\ getter[g].pc = "got"
        /\ getter[g].steady
        /\ getter[g].keys_read
              = << 0, _MEMCACHE_CHUNKSIZE, 2 * _MEMCACHE_CHUNKSIZE >>
        /\ getter[g].lens = << _MEMCACHE_CHUNKSIZE, _MEMCACHE_CHUNKSIZE, 0 >>
        /\ getter[g].result.kind = "stats"

(***************************************************************************)
(* C21  Catch-up pacing: the target of InspectingThread.run starts at the  *)
(* clock reading of the launch and advances by exactly one sampling        *)
(* interval per iteration, however long the iteration took; the loop       *)
(* sleeps exactly when the new target lies in the future; so the k-th loop *)
(* sample (k from 0) is taken no earlier than launch + k intervals.        *)
(***************************************************************************)
C21_CatchUpPacing ==
    [][ \A t \in ThreadIds :
          /\ (threads[t].state = "started" /\ threads'[t].state = "check")
                => threads'[t].next_sample_time = now
                   /\ threads'[t].launch = now
          /\ (threads[t].state = "pace" /\ threads'[t].state # "pace")
                => /\ threads'[t].next_sample_time =
                        threads[t].launch + threads[t].sample_number
                   /\ threads'[t].next_sample_time =
                        threads[t].next_sample_time + 1
                   /\ (threads'[t].state = "sleep")
                        <=> (threads'[t].next_sample_time > now)
                   /\ (threads'[t].state = "check")
                        <=> (threads'[t].next_sample_time <= now)
          /\ (threads[t].state = "take" /\ threads'[t].state = "pace")
                => now >= threads[t].launch + threads[t].sample_number
      ]_vars

\* a loop sample after the first is about to be taken behind schedule, and
\* one is about to be taken after a sleep
C21_Witness ==
    \E t \in ThreadIds :
        /\ threads[t].state = "take"
        /\ threads[t].sample_number >= 1
        /\ now > threads[t].launch + threads[t].sample_number

C21_WitnessSlept ==
    \E t \in ThreadIds :
        /\ threads[t].state = "take"
        /\ threads[t].sample_number >= 1
        /\ now = threads[t].launch + threads[t].sample_number

(***************************************************************************)
(* C22  stop() always completes.  Under fair scheduling a stop() called on *)
(* a running sampler returns, with the inspecting thread ended and         *)
(* cleared; the loop leaves at its next stop check; the thread takes       *)
(* exactly one sample after the loop and none once it has ended; a stop()  *)
(* on a Profile that was never started or is already stopped returns at    *)
(* once and changes nothing.                                               *)
(***************************************************************************)
SamplesTaken == Len(prof.samples)

C22_StopCompletes ==
    /\ (pc = "stop" /\ prof.inspecting_thread # None)
          ~> (pc = "client" /\ prof.inspecting_thread = None
                /\ \A t \in ThreadIds : threads[t].state = "dead")
    /\ [][ /\ \A t \in ThreadIds :
               /\ (threads[t].state = "check" /\ threads[t].stop_event
                      /\ threads'[t] # threads[t])
                     => threads'[t].state = "final"
               /\ (threads[t].state = "final" /\ threads'[t] # threads[t])
                     => /\ threads'[t].state = "dead"
                        /\ SamplesTaken' = SamplesTaken + 1
               /\ threads[t].state = "dead" => threads'[t] = threads[t]
           /\ (\A t \in ThreadIds : threads[t].state \in { "final", "dead" })
                 => SamplesTaken' <= SamplesTaken + 1
           /\ (pc = "join") => pc' \in { "join", "client" }
           /\ (pc = "join" /\ pc' = "client")
                 => /\ threads[TheValue(prof.inspecting_thread)].state = "dead"
                    /\ prof'.inspecting_thread = None
           /\ (pc = "stop" /\ prof.inspecting_thread = None)
                 => /\ pc' = "client"
                    /\ prof' = prof
                    /\ threads' = threads
                    /\ now' = now
      ]_vars

\* a stop() on a running sampler has returned, and the caller is inside a
\* stop() on the stopped Profile
C22_Witness ==
    /\ pc = "stop"
    /\ prof.inspecting_thread = None
    /\ hist.stopped
    /\ hist.loop_samples >= 1
    /\ \E t \in ThreadIds : threads[t].state = "dead"

\* the caller is inside a stop() on a Profile that was never started
C22_WitnessNeverStarted ==
    pc = "stop" /\ threads = << >>

(***************************************************************************)
(* C23  As claimed: results() of the line-by-line Profile does not fail on *)
(* a function whose total time is zero.  For a function that has timing    *)
(* records whose times are all 0, the call returns and the function's      *)
(* table has an entry, with hits, time and percentage, for every line of   *)
(* the block.                                                              *)
(***************************************************************************)
AllTimesZero(item) ==
    /\ item.timings # << >>
    /\ \A i \in DOMAIN item.timings : item.timings[i][3] = 0

C23_ZeroTotalReturns ==
    (/\ line_results # None
     /\ line_profile.line_profiler
     /\ line_profile.num_functions_marked # 0) =>
        \A n \in DOMAIN line_profile.line_stats.timings :
            LET item == line_profile.line_stats.timings[n]
                res == TheValue(line_results)
            IN  AllTimesZero(item) =>
                  /\ res.kind = "return"
                  /\ \E c \in DOMAIN res.calls :
                        /\ res.calls[c].start_lineno = item.key.start_lineno
                        /\ res.calls[c].func_name = item.key.func_name
                        /\ DOMAIN res.calls[c].timings = 1 .. item.block_len
                        /\ \A k \in 1 .. item.block_len :
                              DOMAIN res.calls[c].timings[k] =
                                { "lineno", "numhits", "time_ms",
                                  "perc_time" }

(***************************************************************************)
(* C24  As claimed: a stored profile flagged temporary_redirect is served  *)
(* by RequestStatsHandler at most once, for every interleaving of          *)
(* retrieval requests, when every store of it by a handler succeeds and    *)
(* memcache evicts nothing.                                                *)
(***************************************************************************)
ServedRedirects(id) ==
    { i \in DOMAIN handler_log.served :
        /\ handler_log.served[i].stats.request_id = id
        /\ handler_log.served[i].stats.temporary_redirect }

C24_RedirectServedOnce ==
    ~ handler_log.store_failed =>
        \A id \in RequestIds : Cardinality(ServedRedirects(id)) <= 1

\* as C24 for retrievals that do not overlap: a retrieval that begins
\* after the handler's store omits the profile
C24_ServedOnceInSequence ==
    \A h \in Handlers :
        (/\ getter[h].pc = "got"
         /\ getter[h].steady
         /\ ~ handler_log.store_failed
         /\ ServedRedirects(getter[h].request_id) # { }
         /\ getter[h].result.kind = "stats")
            => ~ Serves(TheValue(getter[h].result.value))

C24_SequenceWitness ==
    \E h \in Handlers :
         /\ getter[h].pc = "got"
         /\ getter[h].steady
         /\ ~ handler_log.store_failed
         /\ ServedRedirects(getter[h].request_id) # { }
         /\ getter[h].result.kind = "stats"

(***************************************************************************)
(* C25  The sampling Profile.run(fxn) always stops the sampler before      *)
(* control leaves it.  When control leaves run, the inspecting thread has  *)
(* been stopped and joined and is cleared; a value that fxn returned is    *)
(* what run returns, and an exception that fxn raised, the StopIteration   *)
(* of an exhausted generator included, is what run raises.  Outside run no *)
(* inspecting thread is alive.                                             *)
(***************************************************************************)
InsideRun == pc \in { "run_fxn", "run_exit", "run_join" }

C25_RunStopsSampler ==
    [][ /\ (rp.sampling_prof /\ ~ InsideRun)
              => \A t \in ThreadIds : threads[t].state = "dead"
        /\ pc = "run_fxn" => pc' \in { "run_fxn", "run_exit" }
        /\ (local.in_wrapper = "sampling" /\ InsideRun /\ ~ InsideRun')
              => /\ local.outcome.kind # "none"
                 /\ prof'.inspecting_thread = None
                 /\ threads' # << >>
                 /\ \A t \in 1 .. Len(threads') :
                        /\ threads'[t].state = "dead"
                        /\ threads'[t].stop_event
                 /\ local.outcome.kind = "error" => pc' = "raised"
                 /\ local.outcome.kind = "StopIteration"
                        => pc' = "finish" /\ out' = out
                 /\ local.outcome.kind = "value"
                        => /\ pc' = "yield_gen"
                           /\ out' = Append(out, local.outcome.value)
                 /\ local.outcome.kind = "return"
                        => /\ pc' \in { "run_enter", "iter" }
                           /\ local'.result = local.app.returns
                           /\ out' = out
      ]_vars

\* fxn has raised inside the sampling run and the exception has left run
C25_Witness ==
    /\ pc = "raised"
    /\ rp.sampling_prof
    /\ hist.stopped
    /\ \E t \in ThreadIds : threads[t].state = "dead"

\* the StopIteration of an exhausted generator has left the sampling run
C25_WitnessStopIteration ==
    /\ pc = "finish"
    /\ rp.sampling_prof
    /\ Len(threads) >= 2
    /\ \A t \in ThreadIds : threads[t].state = "dead"

(***************************************************************************)
(* C26  As claimed: the middleware restores the memcache functions it      *)
(* patches.  Whenever no profiled request is in flight, memcache.add and   *)
(* memcache.delete are the original functions, for every interleaving of   *)
(* concurrently served profiled requests, whether they end normally or by  *)
(* exception.                                                              *)
(***************************************************************************)
NoneInFlight == \A r \in Requests : ~ InFlight(r)

C26_PatchRestored ==
    NoneInFlight => memcache_fns = OriginalFns

\* as C26 when no two profiled requests have overlapped, and the patch is
\* in place while such a request runs
C26_RestoredInSequence ==
    /\ (NoneInFlight /\ \A r \in Requests : mw[r].alone)
          => memcache_fns = OriginalFns
    /\ \A r \in Requests :
          (mw[r].pc = "try" /\ \A q \in Requests : mw[q].alone)
              => memcache_fns = [ add |-> << r >>, delete |-> << r >> ]

C26_SequenceWitness ==
    /\ \A r \in Requests : mw[r].pc = "done" /\ mw[r].alone
    /\ \E r \in Requests : mw[r].outcome = "exception"

(***************************************************************************)
(* C27  As claimed: log capture is balanced.  Whenever no profiled request *)
(* is in flight, the root logger holds no capture handler, whether the     *)
(* wrapped application completed normally or raised while producing its    *)
(* response; and the handler is gone when the bundle has been stored.      *)
(***************************************************************************)
RequestOver == pc \in { "done", "raised" }

C27_LogCaptureBalanced ==
    /\ RequestOver => logger_handlers = 0
    /\ store_log.self # None => logger_handlers = 0

\* as C27 for a request whose application completed normally, and the
\* handler is on the root logger while a request outside SIMPLE mode runs
C27_BalancedOnNormalEnd ==
    /\ pc = "done" => logger_handlers = 0
    /\ store_log.self # None => logger_handlers = 0
    /\ (rp.mode # SIMPLE
          /\ pc \notin { "mw", "psr_begin", "done", "raised" })
            => logger_handlers = 1

C27_NormalEndWitness ==
    pc = "done" /\ rp.mode # SIMPLE /\ store_log.self # None

=============================================================================
